---- MODULE Spec2Model ----
(***************************************************************************)
(* Dispersy: the per-community message pipeline of one node (duplicate     *)
(* check, sequence handling, permission check, distribution policy,        *)
(* persist), its sync table, and the answer to a sync request.             *)
(*                                                                         *)
(* One community is modelled; the community column of the sync table is    *)
(* therefore constant and left out of the rows.                            *)
(***************************************************************************)
EXTENDS Integers, Sequences, FiniteSets, TLC

---------------------------------------------------------------------------
(* Bounds of the model *)

\* highest global time carried by a packet of the sequence universe
MaxGT == 3
\* highest sequence number carried by a packet of the sequence universe
MaxSeq == 3
\* number of packets that may be suspended at the same time
MaxDelayed == 2
\* number of global times, half an inactive_threshold apart, of the pruning universe
MaxPruneStep == 5
\* highest global time carried by a packet of the last-9 universe
MaxLastGT == 10
\* highest global time carried by a packet of the last-1 universe
MaxLast1GT == 2
\* number of global times, half an inactive_threshold apart, of the synced
\* pruning messages
MaxSyncStep == 4
\* highest modulo of a sync window
MaxModulo == 9
\* number of messages of each meta in the universe of the ordered answers
MaxPerMeta == 2
\* number of undo messages a member creates for its message
MaxUndo == 2
MaxText == 2
MaxRequests == 2
MaxCalls == 3
MaxPeers == 2
MaxBatch == 3
MaxGive == 2
MaxQueries == 3
MaxCommitCalls == 2
MaxDepth == 2
MaxPerformed == 3
MaxPending == 3
\* statements of the script given to executescript
MaxStatements == 2
\* rows in the sync table of a database file
MaxRows == 2
\* rows in the sync table of a community that is checked
MaxSync == 3
\* how often the lookup of one bootstrap address fails before it succeeds
MaxFailures == 1
\* calls of Bootstrap.reset()
MaxResets == 1
\* the sequence messages a node holds when it is asked for missing ones
MaxStored == 4
\* the highest sequence number a dispersy-missing-sequence asks for
MaxAsked == 5
\* dispersy-missing-sequence requests in one batch
MaxAsks == 3

---------------------------------------------------------------------------
(* Members, meta messages *)

\* the community's master member (root of the permission tree)
Master == "M"

\* the members that create messages
Members == {"M", "A", "B", "C"}

\* sync.member / double_signed_sync.member1,2 hold database ids, not mids
database_id(m) == CASE m = "M" -> 1 [] m = "A" -> 2 [] m = "B" -> 3 [] m = "C" -> 4 [] OTHER -> 0

\* the metas of the debug community used by the tests, with their policies
Meta(name) ==
  LET base == [sequence |-> FALSE, last |-> 0, pruning |-> FALSE, protected |-> FALSE,
               double |-> FALSE, priority |-> 128, direction |-> "ASC",
               batch |-> FALSE]
  IN CASE name = "sequence-text" -> [base EXCEPT !.sequence = TRUE]
       [] name = "protected-full-sync-text" -> [base EXCEPT !.protected = TRUE]
       [] name = "full-sync-global-time-pruning-text" -> [base EXCEPT !.pruning = TRUE]
       [] name = "last-1-test" -> [base EXCEPT !.last = 1]
       [] name = "last-9-test" -> [base EXCEPT !.last = 9]
       [] name = "last-1-doublemember-text" -> [base EXCEPT !.last = 1, !.double = TRUE]
       [] name = "DESC-text" -> [base EXCEPT !.direction = "DESC"]
       [] name = "RANDOM-text" -> [base EXCEPT !.direction = "RANDOM"]
       [] name = "high-priority-text" -> [base EXCEPT !.priority = 200]
       [] name = "low-priority-text" -> [base EXCEPT !.priority = 100]
       [] name = "medium-priority-text" -> [base EXCEPT !.priority = 150]
       [] name = "dispersy-undo-own" -> [base EXCEPT !.sequence = TRUE]
       [] name = "dispersy-identity" -> [base EXCEPT !.last = 1]
       [] name = "batched-text" -> [base EXCEPT !.batch = TRUE]
       [] OTHER -> base

\* position of a meta in the packet header (message-type byte)
MetaTag(name) ==
  CASE name = "dispersy-authorize" -> 1
    [] name = "full-sync-text" -> 2
    [] name = "sequence-text" -> 3
    [] name = "protected-full-sync-text" -> 4
    [] name = "full-sync-global-time-pruning-text" -> 5
    [] name = "last-1-test" -> 6
    [] name = "last-9-test" -> 7
    [] name = "last-1-doublemember-text" -> 8
    [] name = "dispersy-undo-own" -> 10
    [] name = "dispersy-destroy-community" -> 11
    [] name = "dispersy-identity" -> 12
    [] name = "batched-text" -> 13
    [] OTHER -> 9

---------------------------------------------------------------------------
(* Packets *)

\* the signature the key of member produces with the random value nonce (1 or 2):
\* no two members produce the same signature
Sign(member, nonce) == 2 * database_id(member) + nonce

\* a message as created by the test node: meta.impl(authentication, distribution,
\* payload), signed by its creator with the random value nonce
Msg(meta, member, cosigner, gt, seq, payload, nonce, target) ==
  [meta |-> meta, member |-> member, cosigner |-> cosigner, global_time |-> gt,
   sequence |-> seq, payload |-> payload, signature |-> Sign(member, nonce),
   target |-> target]

\* every packet passes
VerifyAlways(p) == TRUE

\* the public key is a well-formed key and the signature is one that key produces
VerifySignature(p) ==
  /\ database_id(p.member) > 0
  /\ \E nonce \in 1..2 : p.signature = Sign(p.member, nonce)

\* the bytes of a packet, in wire order: header, members, distribution, payload, signature
Encode(p) ==
  << MetaTag(p.meta), database_id(p.member), database_id(p.cosigner), p.global_time,
     p.sequence, p.payload, database_id(p.target), p.signature >>

RECURSIVE SeqLess(_, _)
\* byte-wise (lexicographic) order of two encodings of the same length
SeqLess(a, b) ==
  IF a = << >> \/ b = << >> THEN FALSE
  ELSE IF Head(a) # Head(b) THEN Head(a) < Head(b)
  ELSE SeqLess(Tail(a), Tail(b))

\* packet p sorts before packet q (str comparison of the packets)
PacketLess(p, q) == SeqLess(Encode(p), Encode(q))

\* the two packets carry the same message and differ in the signature only
SamePayload(p, q) == [p EXCEPT !.signature = 0] = [q EXCEPT !.signature = 0]

Max(S) == CHOOSE x \in S : \A y \in S : y <= x
Min(S) == CHOOSE x \in S : \A y \in S : x <= y

NoPacket == Msg("", "", "", 0, 0, 0, 0, "")

\* a message put on the wire by the node: a repair request or a stored packet
Out(name, member, meta, low, high, packet) ==
  [name |-> name, member |-> member, meta |-> meta, low |-> low, high |-> high,
   packet |-> packet]

\* a request that names the range the wrong way round
MissingSequenceSwapped(member, meta, low, high) ==
  Out("dispersy-missing-sequence", member, meta, high, low, NoPacket)

MissingSequence(member, meta, low, high) ==
  Out("dispersy-missing-sequence", member, meta, low, high, NoPacket)

\* missing-proof(member, global_time): the global time travels in the field low
MissingProof(member, gt) == Out("dispersy-missing-proof", member, "", gt, gt, NoPacket)

\* missing-identity(mid)
MissingIdentity(member) == Out("dispersy-missing-identity", member, "", 0, 0, NoPacket)

\* missing-message(member, [global_time])
MissingMessage(member, gt) ==
  Out("dispersy-missing-message", member, "", gt, gt, NoPacket)

\* a stored packet sent to a peer (sync answer, proof of a drop)
SendPacket(packet) == Out(packet.meta, packet.member, packet.meta, 0, 0, packet)

---------------------------------------------------------------------------
(* The sync table *)

VARIABLES
  store,               \* rows of the sync table
  double_signed_sync,  \* rows of the double_signed_sync table
  global_time,         \* the community's global time
  timeline,            \* grants folded into the timeline
  undone,              \* the undone column of sync: row key and the undo it names
  delayed,             \* suspended packets, keyed by what is missing
  outstanding,         \* per missing key: requests emitted while it is pending
  sent,                \* what the last step put on the wire, in order
  history,             \* the last-N packets given to the node so far
  identities,          \* the members whose dispersy-identity the node has
  last,                \* the last step: operation, packet, packets re-evaluated,
                       \* rows that left the store, sync window of the request
  request_cache,       \* signature requests waiting for their response
  responses,           \* dispersy-signature-response packets on their way back
  calls,               \* invocations of the response handlers, in order
  last_request,        \* the last step of a signature request
  candidates,          \* the live peer table
  introductions,       \* the introduction responses of the last batch of requests
  batch_cache,         \* packets of metas with a batch window, in arrival order
  queue,               \* StormDBManager._queue
  pending_commits,     \* StormDBManager._pending_commits
  running,             \* the queries the worker is executing on the connection
  commit_frame,        \* the worker inside _commit, between reading and writing
                       \* _pending_commits
  callbacks,           \* deferred callbacks handed to the reactor thread
  closed,              \* close() was called / the worker has left its loop
  scopes,              \* the with-blocks the caller is in: commits requested in each
  scheduled,           \* the queries in the order they were enqueued
  executed,            \* the queries in the order they were executed
  fired,               \* the queries in the order their deferreds fired
  connection_commits,  \* how often connection.commit() ran
  commit_calls,        \* how often the caller called commit()
  storm_last,          \* the last step of the StormDBManager
  db_pending_commits,  \* Database._pending_commits
  db_commits,          \* how often Database ran _connection.commit()
  db_scopes,           \* the with-blocks the caller of Database is in
  db_last,             \* the last step of the Database
  database_file,       \* the database file of a DispersyDatabase: the stored
                       \* database_version, the columns of member, the UNIQUE
                       \* constraint and the rows of sync, whether old_sync exists
  opening,             \* DispersyDatabase.open: where it is, the database_version
                       \* it read, self._version, its last step
  statements,          \* the scripts this open has executed, in order
  bootstrap_candidates,\* Bootstrap._candidates: per address, whether it is resolved
  lookups,             \* the reactor.resolve calls in flight, with the call of
                       \* resolve() that gathers them
  task,                \* task_resolving_bootstrap_address is registered and running
  failures,            \* per address: the lookups that failed so far
  resets,              \* calls of reset() so far
  bootstrap_last,      \* the last step of the Bootstrap
  missing_requests,    \* the dispersy-missing-sequence requests of the last batch
  replies,             \* per requester: the packets sent back for that batch
  community_sync,      \* the rows of sync of the community that is checked
  community_last       \* the last step of check_community_database and the
                       \* database_version it was called with

\* the signature requests of the node
requestVars == << request_cache, responses, calls, last_request >>

\* the walker
walkerVars == << candidates, introductions >>

\* the StormDBManager, its worker and its caller
stormVars == << queue, pending_commits, running, commit_frame, callbacks, closed, scopes,
                scheduled, executed, fired, connection_commits, commit_calls,
                storm_last >>

\* the Database and its caller
databaseVars == << db_pending_commits, db_commits, db_scopes, db_last >>

\* the DispersyDatabase that is opened
openVars == << database_file, opening, statements >>

\* the Bootstrap
bootstrapVars ==
  << bootstrap_candidates, lookups, task, failures, resets, bootstrap_last >>

\* the answers to dispersy-missing-sequence
repairVars == << missing_requests, replies >>

\* the sync table of a community that is loaded
communityVars == << community_sync, community_last >>

\* what none of the steps of the node, the StormDBManager and the Database changes
startupVars == << openVars, bootstrapVars, repairVars, communityVars >>

\* what the message pipeline leaves alone
otherVars == << requestVars, walkerVars, batch_cache, stormVars, databaseVars,
               startupVars >>

\* the store and the message pipeline
pipelineVars == << store, double_signed_sync, global_time, timeline, undone, delayed,
                   outstanding, sent, history, identities, last >>

vars == << store, double_signed_sync, global_time, timeline, undone, delayed,
           outstanding, sent, history, identities, last, request_cache, responses,
           calls, last_request, candidates, introductions, batch_cache, queue,
           pending_commits, running, commit_frame, callbacks, closed, scopes, scheduled,
           executed, fired, connection_commits, commit_calls, storm_last,
           db_pending_commits, db_commits, db_scopes, db_last, database_file, opening,
           statements, bootstrap_candidates, lookups, task, failures, resets,
           bootstrap_last, missing_requests, replies, community_sync, community_last >>

\* a row of sync for packet p
Row(p) ==
  [member |-> p.member, global_time |-> p.global_time, meta |-> p.meta,
   packet |-> p, sequence |-> p.sequence]

\* a row of double_signed_sync that keeps the signers in the order of the packet
DoubleRowUnsorted(p) ==
  [member |-> p.member, global_time |-> p.global_time,
   member1 |-> database_id(p.member), member2 |-> database_id(p.cosigner)]

\* a row of double_signed_sync for packet p: member1 < member2
DoubleRow(p) ==
  LET a == database_id(p.member)
      b == database_id(p.cosigner)
  IN [member |-> p.member, global_time |-> p.global_time,
      member1 |-> IF a < b THEN a ELSE b, member2 |-> IF a < b THEN b ELSE a]

\* INSERT INTO sync without the uniqueness constraint
SyncInsertNoUnique(S, row) == S \cup {row}

\* INSERT INTO sync under UNIQUE(community, member, global_time): the insert of a
\* second row with the same member and global time fails and changes nothing
SyncInsert(S, row) ==
  IF \E r \in S : r.member = row.member /\ r.global_time = row.global_time
  THEN S
  ELSE S \cup {row}

RowsOf(S, member, meta) == {r \in S : r.member = member /\ r.meta = meta}

\* SELECT MAX(sequence) ... WHERE member = ? AND meta_message = ?
LastSequence(S, member, meta) ==
  LET q == {r.sequence : r \in RowsOf(S, member, meta)}
  IN IF q = {} THEN 0 ELSE Max(q)

\* SELECT MAX(global_time) ... WHERE member = ? AND meta_message = ?
LastGlobalTime(S, member, meta) ==
  LET q == {r.global_time : r \in RowsOf(S, member, meta)}
  IN IF q = {} THEN 0 ELSE Max(q)

\* the sequence rule without the global time comparison
SequenceRuleNoTime(last_sequence_number, last_global_time, sequence_number, gt) ==
  last_sequence_number + 1 = sequence_number

\* the rule a message must meet to extend a member's sequence:
\* seq(M_j) = seq(M_i) + 1 and gt(M_i) < gt(M_j)
SequenceRule(last_sequence_number, last_global_time, sequence_number, gt) ==
  /\ last_sequence_number + 1 = sequence_number
  /\ last_global_time < gt

---------------------------------------------------------------------------
(* Pruning *)

inactive_threshold == 10
prune_threshold == 20

\* state of a message with global time gt of a pruning meta when the community
\* is at global time now
PruningState(now, gt) ==
  IF now - gt < inactive_threshold THEN "active"
  ELSE IF now - gt < prune_threshold THEN "inactive"
  ELSE "pruned"

\* the pruning that forgets to remove: nothing is deleted
PruneNothing(S, now) == S

\* remove the messages of pruning metas that have become pruned
Prune(S, now) ==
  {r \in S : ~(Meta(r.meta).pruning /\ PruningState(now, r.global_time) = "pruned")}

---------------------------------------------------------------------------
(* Timeline *)

\* the meta whose permit/authorize permission the authorize messages grant
GrantedMeta == "protected-full-sync-text"

\* the grant folded into the timeline when authorize packet p is accepted
Grant(p) == [member |-> p.target, meta |-> GrantedMeta, global_time |-> p.global_time]

\* check(member, meta, permit, global_time): the master member may do anything;
\* a grant is valid from its global_time + 1 onward
Permitted(T, member, meta, gt) ==
  \/ member = Master
  \/ \E g \in T : g.member = member /\ g.meta = meta /\ g.global_time < gt

\* does packet p need a proof from the timeline
NeedsPermission(p) ==
  \/ Meta(p.meta).protected
  \/ p.meta = "dispersy-authorize"
  \/ p.meta = "dispersy-destroy-community"

\* the timeline can prove that the creator of p was allowed to create it
Proven(T, p) == ~NeedsPermission(p) \/ Permitted(T, p.member, GrantedMeta, p.global_time)

---------------------------------------------------------------------------
(* Destroy *)

\* the degree of a dispersy-destroy-community as it travels in the payload
DegreeByte(degree) == IF degree = "hard-kill" THEN 1 ELSE 0

IsHardKill(p) ==
  p.meta = "dispersy-destroy-community" /\ p.payload = DegreeByte("hard-kill")

RECURSIVE ProofChain(_, _, _)
\* the stored authorize messages that prove the permission of member at global
\* time gt, with the proofs of their own creators
ProofChain(S, member, gt) ==
  IF member = Master THEN {}
  ELSE UNION {{r} \cup ProofChain(S, r.member, r.global_time) :
                r \in {q \in S : /\ q.meta = "dispersy-authorize"
                                  /\ q.packet.target = member
                                  /\ q.global_time < gt}}

\* a hard-kill that removes nothing
HardKillKeepsAll(S, p) == S

\* the store after hard-kill p was stored: p and its proof chain
HardKill(S, p) == (S \cap {Row(p)}) \cup ProofChain(S, p.member, p.global_time)

---------------------------------------------------------------------------
(* Undo *)

\* dispersy-undo-own: the payload names the global time of the creator's message
IsUndo(p) == p.meta = "dispersy-undo-own"

\* the entries of the undone column for the row (member, gt)
UndoneBy(U, member, gt) == {x \in U : x.member = member /\ x.global_time = gt}

Mark(member, gt, by) == [member |-> member, global_time |-> gt, by |-> by]

\* of two undo messages for one target the one with the lower packet is in force
UndoWinner(w, p) == IF PacketLess(p, w) THEN p ELSE w

\* the losing undo is left as it is
ResolvedTargetOnly(U, p, w, low, high) ==
  {IF x.by = w THEN Mark(x.member, x.global_time, low) ELSE x : x \in U}

\* the undone column once undo p is in force next to the undo w in force so far:
\* the target and the losing undo are undone by the winner
Resolved(U, p, w, low, high) ==
  {IF x.by = w THEN Mark(x.member, x.global_time, low) ELSE x : x \in U}
    \cup {Mark(high.member, high.global_time, low)}

Resolve(U, p, w) ==
  Resolved(U, p, w, UndoWinner(w, p), IF UndoWinner(w, p) = p THEN w ELSE p)

\* the undone column once undo p was stored
UndoFold(U, p) ==
  IF UndoneBy(U, p.member, p.payload) = {}
  THEN U \cup {Mark(p.member, p.payload, p)}
  ELSE Resolve(U, p, (CHOOSE x \in UndoneBy(U, p.member, p.payload) : TRUE).by)

---------------------------------------------------------------------------
(* The checks of the pipeline *)

\* the node as a value
Node(S, D, gt, T, U, Q, O, I) ==
  [store |-> S, double_signed_sync |-> D, global_time |-> gt, timeline |-> T,
   undone |-> U, delayed |-> Q, outstanding |-> O, identities |-> I]

\* what is missing for a suspended packet
SequenceKey(p) ==
  [kind |-> "sequence", member |-> p.member, meta |-> p.meta, n |-> p.sequence - 1]
ProofKey(p) ==
  [kind |-> "proof", member |-> p.member, meta |-> "", n |-> p.global_time]
MessageKey(p) ==
  [kind |-> "message", member |-> p.member, meta |-> "", n |-> p.payload]
IdentityKey(p) ==
  [kind |-> "identity", member |-> p.member, meta |-> "", n |-> 0]

Verdict(verdict, S, request, key, reply) ==
  [verdict |-> verdict, store |-> S, request |-> request, key |-> key, reply |-> reply]

Drop(S, reply) == Verdict("drop", S, << >>, SequenceKey(NoPacket), reply)
Accept(S) == Verdict("accept", S, << >>, SequenceKey(NoPacket), << >>)

\* a row with the member and global time of p is stored
IsDuplicateSyncMessage(S, p) ==
  \E r \in S : r.member = p.member /\ r.global_time = p.global_time

\* a node that keeps the packet it stored first
ReplaceNever(S, p) == S

\* same payload, different signature: the stored packet is replaced by the
\* byte-wise higher one
ReplaceIdentical(S, p) ==
  {IF r.member = p.member /\ r.global_time = p.global_time /\ r.packet # p
      /\ SamePayload(r.packet, p) /\ PacketLess(r.packet, p)
   THEN [r EXCEPT !.packet = p] ELSE r : r \in S}

\* full-sync with sequence numbers, once older conflicting rows are out of the way
CheckSuccessor(S, p) ==
  LET seq == LastSequence(S, p.member, p.meta)
      lgt == LastGlobalTime(S, p.member, p.meta)
  IN IF seq + 1 # p.sequence
     THEN Verdict("delay", S,
                  << MissingSequence(p.member, p.meta, seq + 1, p.sequence - 1) >>,
                  SequenceKey(p), << >>)
     ELSE IF IsDuplicateSyncMessage(S, p) THEN Drop(S, << >>)
     ELSE IF ~SequenceRule(seq, lgt, p.sequence, p.global_time) THEN Drop(S, << >>)
     ELSE Accept(S)

\* full-sync with sequence numbers
CheckSequence(S, p) ==
  LET rows == RowsOf(S, p.member, p.meta)
  IN IF LastSequence(S, p.member, p.meta) >= p.sequence
     THEN LET have == CHOOSE r \in rows : r.sequence = p.sequence
          IN IF have.packet = p THEN Drop(S, << >>)
             ELSE IF \/ have.global_time < p.global_time
                     \/ have.global_time = p.global_time /\ PacketLess(have.packet, p)
                  THEN Drop(S, << SendPacket(have.packet) >>)
                  ELSE CheckSuccessor(S \ {r \in rows : r.global_time >= have.global_time}, p)
     ELSE CheckSuccessor(S, p)

\* full-sync without sequence numbers
CheckFullSync(S, p) ==
  IF IsDuplicateSyncMessage(S, p) THEN Drop(ReplaceIdentical(S, p), << >>)
  ELSE Accept(S)

\* the rows that compete with p for the slots of its key: the creating member, or
\* the sorted pair of signers
KeyRows(S, D, p) ==
  IF Meta(p.meta).double
  THEN {r \in S : /\ r.meta = p.meta
                  /\ \E d \in D : /\ d.member = r.member
                                  /\ d.global_time = r.global_time
                                  /\ d.member1 = DoubleRow(p).member1
                                  /\ d.member2 = DoubleRow(p).member2}
  ELSE RowsOf(S, p.member, p.meta)

\* last-N that drops an older message without an answer
LastSyncVerdictSilent(S, p, rows, tim) ==
  IF p.global_time \in tim \/ IsDuplicateSyncMessage(S, p) THEN Drop(S, << >>)
  ELSE IF Cardinality(tim) >= Meta(p.meta).last /\ Min(tim) > p.global_time
       THEN Drop(S, << >>)
       ELSE Accept(S)

\* last-N, given the rows of the key and their global times: equal global time is
\* a duplicate, older than all N stored is dropped and answered with the newer one
LastSyncVerdict(S, p, rows, tim) ==
  IF p.global_time \in tim \/ IsDuplicateSyncMessage(S, p) THEN Drop(S, << >>)
  ELSE IF Cardinality(tim) >= Meta(p.meta).last /\ Min(tim) > p.global_time
       THEN Drop(S, IF Meta(p.meta).last = 1
                    THEN << SendPacket((CHOOSE r \in rows : TRUE).packet) >>
                    ELSE << >>)
       ELSE Accept(S)

GlobalTimes(rows) == {r.global_time : r \in rows}

\* last-N
CheckLastSync(S, D, p) ==
  LastSyncVerdict(S, p, KeyRows(S, D, p), GlobalTimes(KeyRows(S, D, p)))

\* the undo whose target was undone before by undo w with a lower packet is
\* answered with w
UndoReply(p, w) == IF PacketLess(w, p) THEN << SendPacket(w) >> ELSE << >>

\* a node that accepts an undo without looking for its target
CheckUndoUnseen(n, p, a) == a

\* undo p, accepted so far with verdict a: its target has to be stored
CheckUndo(n, p, a) ==
  IF ~\E r \in a.store : r.member = p.member /\ r.global_time = p.payload
  THEN Verdict("delay", a.store, << MissingMessage(p.member, p.payload) >>,
               MessageKey(p), << >>)
  ELSE IF UndoneBy(n.undone, p.member, p.payload) = {} THEN a
  ELSE Verdict("accept", a.store, << >>, a.key,
               UndoReply(p, (CHOOSE x \in UndoneBy(n.undone, p.member, p.payload) : TRUE).by))

\* stages 6 and 7, given the verdict a of the sequence handling
CheckPermission(n, p, a) ==
  IF a.verdict # "accept" THEN a
  ELSE IF ~Proven(n.timeline, p)
       THEN IF p.meta = "dispersy-destroy-community"
            THEN Drop(a.store, << >>)
            ELSE Verdict("delay", a.store, << MissingProof(p.member, p.global_time) >>,
                         ProofKey(p), << >>)
  ELSE IF Meta(p.meta).pruning /\ PruningState(n.global_time, p.global_time) = "pruned"
       THEN Drop(a.store, << >>)
  ELSE IF IsUndo(p) THEN CheckUndo(n, p, a)
  ELSE IF Meta(p.meta).sequence THEN a
  ELSE IF Meta(p.meta).last > 0 THEN CheckLastSync(a.store, n.double_signed_sync, p)
  ELSE CheckFullSync(a.store, p)

\* stages 3 to 7 for one packet: the verdict and the store it leaves
\* a node that takes every creator for known
KnownAlways(I, p) == TRUE

\* the creator of p is known: p is its dispersy-identity, or the node has it
KnownIdentity(I, p) == p.meta = "dispersy-identity" \/ p.member \in I

Check(n, p) ==
  IF ~VerifySignature(p) THEN Drop(n.store, << >>)
  ELSE IF \E r \in n.store : r.packet = p THEN Drop(n.store, << >>)
  ELSE IF ~KnownIdentity(n.identities, p)
       THEN Verdict("delay", n.store, << MissingIdentity(p.member) >>, IdentityKey(p),
                    << >>)
  ELSE IF Meta(p.meta).sequence THEN CheckPermission(n, p, CheckSequence(n.store, p))
  ELSE CheckPermission(n, p, Accept(n.store))

---------------------------------------------------------------------------
(* Persist *)

\* a last-N history that never lets go of a message
EvictedNone(S, D, p) == {}

\* the rows of p's key that fall out of the last-N history: all but the N with
\* the highest global time
Evicted(S, D, p) ==
  LET rows == KeyRows(S, D, p)
      n == Meta(p.meta).last
  IN IF n = 0 THEN {}
     ELSE {r \in rows : Cardinality({q \in rows : q.global_time > r.global_time}) >= n}

\* the rows of double_signed_sync once the rows out have left sync
DoubleRowsLeft(D, out) ==
  {d \in D : ~\E r \in out : r.member = d.member /\ r.global_time = d.global_time}

\* the node once S1, D1 hold the inserted message and the rows out are evicted
Stored(n, S, p, update, S1, D1, out, now) ==
  IF Row(p) \notin S1
  THEN [n EXCEPT !.store = S]
  ELSE [n EXCEPT !.store = IF update /\ IsHardKill(p)
                           THEN HardKill(Prune(S1 \ out, now), p)
                           ELSE Prune(S1 \ out, now),
                 !.double_signed_sync = DoubleRowsLeft(D1, out),
                 !.global_time = now,
                 !.timeline = IF update /\ p.meta = "dispersy-authorize"
                              THEN n.timeline \cup {Grant(p)} ELSE n.timeline,
                 !.undone = IF update /\ IsUndo(p)
                            THEN UndoFold(n.undone, p) ELSE n.undone,
                 !.identities = IF p.meta = "dispersy-identity"
                                THEN n.identities \cup {p.member} ELSE n.identities]

Inserted(n, S, p, update, S1, D1) ==
  Stored(n, S, p, update, S1, D1, Evicted(S1, D1, p),
         IF p.global_time > n.global_time THEN p.global_time ELSE n.global_time)

\* store one message: insert, register the signer pair, evict from the last-N
\* history, advance the global time and prune; update folds p into the timeline
Persist(n, S, p, update) ==
  Inserted(n, S, p, update, SyncInsert(S, Row(p)),
           IF Meta(p.meta).double
           THEN n.double_signed_sync \cup {DoubleRow(p)}
           ELSE n.double_signed_sync)

---------------------------------------------------------------------------
(* Suspended packets *)

PendingKeys(Q) == {d.key : d \in Q}

\* a missing-* request is sent only when nothing is pending for the same key yet
RequestNeeded(Q, key) == key \notin PendingKeys(Q)

\* the request counters once one more packet is pending under key
Counted(O, key, ask) ==
  [k \in DOMAIN O \cup {key} |->
     IF k = key THEN (IF k \in DOMAIN O THEN O[k] ELSE 0) + (IF ask THEN 1 ELSE 0)
     ELSE O[k]]

\* suspend packet p under key; count the requests emitted for a pending key
Suspend(n, p, key, request) ==
  [node |-> [n EXCEPT !.delayed = n.delayed \cup {[packet |-> p, key |-> key]},
                      !.outstanding = Counted(n.outstanding, key,
                                              RequestNeeded(n.delayed, key))],
   sent |-> IF RequestNeeded(n.delayed, key) THEN request ELSE << >>]

\* forget the keys nothing is pending for any more
Forget(O, Q) == [k \in DOMAIN O \cap PendingKeys(Q) |-> O[k]]

\* stage 8, given the verdict c of the checks
Act(n, p, c) ==
  CASE c.verdict = "accept" -> [node |-> Persist(n, c.store, p, TRUE), sent |-> c.reply]
    [] c.verdict = "delay" -> Suspend([n EXCEPT !.store = c.store], p, c.key, c.request)
    [] OTHER -> [node |-> [n EXCEPT !.store = c.store], sent |-> c.reply]

\* one packet through stages 3 to 8
Handle(n, p) == Act(n, p, Check(n, p))

\* the suspended packets whose missing part has arrived
Ready(n) ==
  {d \in n.delayed :
     CASE d.key.kind = "sequence" ->
            LastSequence(n.store, d.packet.member, d.packet.meta) >= d.packet.sequence - 1
       [] d.key.kind = "message" ->
            \E r \in n.store : r.member = d.key.member /\ r.global_time = d.key.n
       [] d.key.kind = "identity" -> d.key.member \in n.identities
       [] OTHER -> Proven(n.timeline, d.packet)}

\* batches are processed in the order of global time, then packet
Before(p, q) ==
  \/ p.global_time < q.global_time
  \/ p.global_time = q.global_time /\ PacketLess(p, q)

First(Q) == CHOOSE x \in Q : \A y \in Q : x = y \/ Before(x.packet, y.packet)

\* the node without the suspended packet d
Released(n, d) ==
  [n EXCEPT !.delayed = n.delayed \ {d},
            !.outstanding = Forget(n.outstanding, n.delayed \ {d})]

RECURSIVE Settle(_, _, _)

\* the result r of re-evaluating d, then the rest
Settled(r, out, done, d) == Settle(r.node, out \o r.sent, done \cup {d.packet})

Resume(n, out, done, d) == Settled(Handle(Released(n, d), d.packet), out, done, d)

\* re-evaluate the suspended packets that have become ready, until none is
Settle(n, out, done) ==
  IF Ready(n) = {} THEN [node |-> n, sent |-> out, resumed |-> done]
  ELSE Resume(n, out, done, First(Ready(n)))

NotResumed(r) == [node |-> r.node, sent |-> r.sent, resumed |-> {}]

SettleAfter(r) == Settle(r.node, r.sent, {})

\* the suspended packets are never looked at again
OnIncomingPacketNoResume(n, p) == NotResumed(Handle(n, p))

\* on_incoming_packets for one packet: the pipeline, then the packets it unblocks
OnIncomingPacket(n, p) == SettleAfter(Handle(n, p))

\* the outcome of a batch so far, followed by the outcome x of its next packet
Then(r, x) ==
  [node |-> x.node, sent |-> r.sent \o x.sent, resumed |-> r.resumed \cup x.resumed]

RECURSIVE OnIncomingPackets(_, _)
\* on_incoming_packets for packets ps, in arrival order, after outcome r
OnIncomingPackets(r, ps) ==
  IF ps = << >> THEN r
  ELSE OnIncomingPackets(Then(r, OnIncomingPacket(r.node, Head(ps))), Tail(ps))

\* a batch window that is never used
BatchedNever(p, cache) == FALSE

\* p waits for its batch window: its meta has one and the caller allows caching
Batched(p, cache) == cache /\ Meta(p.meta).batch

RECURSIVE Distinct(_)
\* the packets of ps without repetitions, in the order of their first arrival
Distinct(ps) ==
  IF ps = << >> THEN << >>
  ELSE << Head(ps) >> \o Distinct(SelectSeq(Tail(ps), LAMBDA q : q # Head(ps)))

---------------------------------------------------------------------------
(* Sync *)

\* the sync window of an introduction request; the bloom filter is the set of
\* packets it answers "present" for
Sync(time_low, time_high, modulo, offset, bloom_packets) ==
  [time_low |-> time_low, time_high |-> time_high, modulo |-> modulo,
   offset |-> offset, bloom_filter |-> bloom_packets]

NoSync == Sync(0, 0, 1, 0, {})

\* a time_high of 0 is an upper bound like any other
InRangeLiteral(w, gt) == w.time_low <= gt /\ gt <= w.time_high

\* the range of the window: a time_high of 0 means no upper bound
InRange(w, gt) == w.time_low <= gt /\ (w.time_high = 0 \/ gt <= w.time_high)

\* the slice of the window
InSlice(w, gt) == (gt + w.offset) % w.modulo = 0

\* every stored message counts as active
IsActiveAlways(now, r) == TRUE

\* messages of pruning metas are synced while they are active only
IsActive(now, r) ==
  Meta(r.meta).pruning => PruningState(now, r.global_time) = "active"

\* the rows of S the window w asks for
Selected(S, now, w) ==
  {r \in S : /\ InRange(w, r.global_time)
             /\ InSlice(w, r.global_time)
             /\ r.packet \notin w.bloom_filter
             /\ IsActive(now, r)}

\* an answer ordered within each meta only
MustPrecedeNoPriority(a, b) ==
  /\ a.meta = b.meta
  /\ \/ Meta(a.meta).direction = "ASC" /\ a.global_time < b.global_time
     \/ Meta(a.meta).direction = "DESC" /\ a.global_time > b.global_time

\* row a has to be sent before row b: higher priority first, and within a meta
\* by its direction (RANDOM leaves the order open)
MustPrecede(a, b) ==
  \/ Meta(a.meta).priority > Meta(b.meta).priority
  \/ /\ a.meta = b.meta
     /\ \/ Meta(a.meta).direction = "ASC" /\ a.global_time < b.global_time
        \/ Meta(a.meta).direction = "DESC" /\ a.global_time > b.global_time

\* the rows of R nothing has to be sent before
Heads(R) == {x \in R : ~\E y \in R : MustPrecede(y, x)}

RECURSIVE Orders(_)
\* the orders in which the rows R may be sent
Orders(R) ==
  IF R = {} THEN {<< >>}
  ELSE UNION {{<< x >> \o t : t \in Orders(R \ {x})} : x \in Heads(R)}

IntroductionResponse == Out("dispersy-introduction-response", "", "", 0, 0, NoPacket)

\* the packets put on the wire for the rows in answer, in that order
Packets(answer) == [i \in DOMAIN answer |-> SendPacket(answer[i].packet)]

---------------------------------------------------------------------------
(* Signature requests *)

\* a double-signed-text as the initiator creates it: only its own slot is signed
DoubleSignedText(member, cosigner, text) ==
  [meta |-> "double-signed-text", member |-> member, cosigner |-> cosigner,
   text |-> text, signed |-> {member}]

\* the response a handler gets when the request timed out
None == [meta |-> "", member |-> "", cosigner |-> "", text |-> "", signed |-> {}]

\* what the responder makes of the sub-message: it signs an allowed one, it
\* changes the payload of one it is asked to modify and signs alone
AllowSignature(submsg) ==
  IF submsg.text = "Allow=True"
  THEN {[submsg EXCEPT !.signed = {submsg.member, submsg.cosigner}]}
  ELSE IF submsg.text = "Allow=Modify"
       THEN {[submsg EXCEPT !.text = "MODIFIED", !.signed = {submsg.cosigner}]}
       ELSE {}

\* the identifiers that were claimed so far
Claimed(cache, C) ==
  {r.identifier : r \in cache} \cup {C[i].identifier : i \in DOMAIN C}

\* a cache that keeps the request after its response came in
PoppedNever(cache, identifier) == cache

\* the cache without the request of identifier
Popped(cache, identifier) == {r \in cache : r.identifier # identifier}

\* the handler is invoked with (request, response, modified)
Called(C, request, response) ==
  Append(C, [identifier |-> request.identifier, request |-> request.message,
             response |-> response,
             modified |-> response # None /\ response.text # request.message.text])

---------------------------------------------------------------------------
(* StormDBManager and Database *)

\* (callable, args, kwargs, deferred) as schedule_query puts it on the queue
Query(id) ==
  [kind |-> "query", id |-> id, exiting |-> FALSE, inside |-> FALSE, left |-> ""]

\* the bool commit() puts on the queue; inside notes whether the caller was in a
\* with-block at that moment, left how that with-block was left ("" until then)
CommitItem(exiting, inside) ==
  [kind |-> "commit", id |-> 0, exiting |-> exiting, inside |-> inside, left |-> ""]

\* the None close() puts on the queue
CloseItem ==
  [kind |-> "close", id |-> 0, exiting |-> FALSE, inside |-> FALSE, left |-> ""]

\* the tuple executescript puts on the queue, with the deferred it returns
ScriptItem ==
  [kind |-> "script", id |-> MaxQueries + MaxStatements + 1, exiting |-> FALSE,
   inside |-> FALSE, left |-> ""]

\* the tuple self.execute puts on the queue for the k-th statement of the script
Statement(k) ==
  [kind |-> "query", id |-> MaxQueries + k, exiting |-> FALSE, inside |-> FALSE,
   left |-> ""]

NoItem == [kind |-> "", id |-> 0, exiting |-> FALSE, inside |-> FALSE, left |-> ""]

\* the worker is not inside _commit
NoFrame == [active |-> FALSE, loaded |-> 0]

\* a worker that takes the next item while it is still busy
IdleAlways(R, frame, done) == ~done

\* the worker is back at self._queue.get()
Idle(R, frame, done) == R = {} /\ ~frame.active /\ ~done

\* __enter__: self._pending_commits = max(1, self._pending_commits)
Entered(pending) == IF pending > 1 THEN pending ELSE 1

\* __exit__ performs a commit: no exception and pending_commits > 1
ExitCommits(exc_type, pending) == exc_type = "None" /\ pending > 1

\* one more commit was requested in every with-block the caller is in (counted
\* up to MaxCommitCalls)
Requested(S) == [i \in DOMAIN S |-> IF S[i] < MaxCommitCalls THEN S[i] + 1 ELSE S[i]]

\* the with-blocks without the innermost
Left(S) == SubSeq(S, 1, Len(S) - 1)

\* the queue when the caller leaves its outermost with-block with exc_type: the
\* commits requested inside and still waiting are the same bools, noted as
\* requested in a with-block that was left with exc_type
Leave(Q, exc_type, depth) ==
  [i \in DOMAIN Q |->
     IF depth = 1 /\ Q[i].kind = "commit" /\ Q[i].inside /\ Q[i].left = ""
     THEN [Q[i] EXCEPT !.left = exc_type] ELSE Q[i]]

\* what __exit__ returns: True swallows the exception, False lets Python reraise
ExitReturns(exc_type) == exc_type \in {"None", "IgnoreCommits"}

\* what __exit__ can be called with
ExcTypes == {"None", "IgnoreCommits", "Exception"}

---------------------------------------------------------------------------
(* DispersyDatabase: the database file and its schema version *)

\* LATEST_VERSION = 21
LATEST_VERSION == 21

\* the oldest version check_database upgrades from
LowestUpgradable == 16

\* the SQL NULL
Null == 0

\* UNIQUE(community, member, global_time) of the sync table in schema
SyncUnique == {"community", "member", "global_time"}

\* UNIQUE(community, member, global_time, sequence) of the sync table that the
\* upgrade to version 20 creates
SyncUnique20 == {"community", "member", "global_time", "sequence"}

\* the columns of the member table in a database of version v
MemberColumns(v) ==
  IF v < 18 THEN {"id", "mid", "public_key", "tags"}
  ELSE IF v = 18 THEN {"id", "mid", "public_key"}
  ELSE {"id", "mid", "public_key", "private_key"}

\* a row of the sync table on disk
SyncRow(id, member, time, sequence) ==
  [id |-> id, community |-> 1, member |-> member, global_time |-> time,
   sequence |-> sequence]

\* no file, or an empty one: there is no option table
NoFile ==
  [option |-> 0, member |-> {}, sync_unique |-> {}, sync |-> {}, old_sync |-> FALSE]

NoRow == SyncRow(0, 0, 0, Null)

\* before open()
NotOpened ==
  [state |-> "init", database_version |-> 0, next |-> 0, version |-> 0, op |-> "init",
   row |-> NoRow]

\* the statements of schema, run on an empty file
Schema ==
  [option |-> LATEST_VERSION, member |-> MemberColumns(LATEST_VERSION),
   sync_unique |-> SyncUnique, sync |-> {}, old_sync |-> FALSE]

\* a check_database that accepts every version above the latest
RefusedLowOnly(database_version) == database_version < LowestUpgradable

\* check_database raises RuntimeError for a non-zero database_version
Refused(database_version) ==
  database_version > LATEST_VERSION \/ database_version < LowestUpgradable

\* an upgrade that also runs when the database is at its target version
AppliesAtTarget(database_version, target) == database_version <= target

\* if database_version < 17: ... if database_version < 21:
Applies(database_version, target) == database_version < target

\* the rows copied into the new sync table: sequence is NULL
Copied(R) == {[r EXCEPT !.sequence = Null] : r \in R}

\* the script that upgrades to target, the last statement of which writes target
\* to the option table
Script(F, target) ==
  CASE target \in {17, 18, 19} ->
         [F EXCEPT !.option = target, !.member = MemberColumns(target)]
    [] target = 20 ->
         [F EXCEPT !.option = target, !.sync_unique = SyncUnique20,
                   !.sync = Copied(F.sync), !.old_sync = FALSE]
    [] OTHER -> [F EXCEPT !.option = target]

\* sqlite rejects row: a row of R has the same non-NULL value in every column
\* of the UNIQUE constraint U
Conflicts(U, R, row) ==
  \E r \in R : \A c \in U : r[c] = row[c] /\ row[c] # Null

---------------------------------------------------------------------------
(* Answering dispersy-missing-sequence *)

\* the nodes that ask
Requesters == {"node1", "node2"}

\* a dispersy-missing-sequence as it comes in from candidate
Incoming(candidate, message) == [candidate |-> candidate, message |-> message]

\* the requests of the batch that candidate sent for member and meta
RequestsOf(batch, candidate, member, meta) ==
  {batch[i].message : i \in {j \in DOMAIN batch :
      /\ batch[j].candidate = candidate
      /\ batch[j].message.member = member
      /\ batch[j].message.meta = meta}}

\* the sequence numbers candidate asked for in the batch
Asked(batch, candidate, member, meta) ==
  UNION {m.low .. m.high : m \in RequestsOf(batch, candidate, member, meta)}

RECURSIVE Ascending(_)
\* the rows R of one member and meta in the order of their sequence numbers
Ascending(R) ==
  IF R = {} THEN << >>
  ELSE LET first == CHOOSE r \in R : \A x \in R : r.sequence <= x.sequence
       IN << first.packet >> \o Ascending(R \ {first})

RECURSIVE MissingSequenceReplyEach(_, _, _, _, _)
\* a node that answers every request of the batch by itself
MissingSequenceReplyEach(S, batch, candidate, member, meta) ==
  IF batch = << >> THEN << >>
  ELSE (IF Head(batch).candidate = candidate
        THEN Ascending({r \in RowsOf(S, member, meta) :
                          r.sequence \in Head(batch).message.low ..
                                         Head(batch).message.high})
        ELSE << >>)
       \o MissingSequenceReplyEach(S, Tail(batch), candidate, member, meta)

\* the packets sent to candidate for the requests of one batch: the messages of
\* member and meta the node has with a sequence number that was asked for
MissingSequenceReply(S, batch, candidate, member, meta) ==
  Ascending({r \in RowsOf(S, member, meta) :
               r.sequence \in Asked(batch, candidate, member, meta)})

---------------------------------------------------------------------------
(* Bootstrap *)

\* the addresses given to Bootstrap(addresses): an IP address and two DNS names
Addresses == {"130.161.211.245", "dispersy1.tribler.org", "dispersy2.tribler.org"}

\* isIPAddress(host)
isIPAddress(host) == host = "130.161.211.245"

\* a resolve_bootstrap_servers that stops as soon as one address is resolved
any_resolved(C) == \E address \in DOMAIN C : C[address]

\* all(self._candidates.itervalues())
all_resolved(C) == \A address \in DOMAIN C : C[address]

\* addresses = [address for address, candidate in self._candidates.items()
\*              if not candidate]
Unresolved(C) == {address \in DOMAIN C : ~C[address]}

\* resolve(): add_candidate at once for the IP addresses
AddedAtOnce(C) == [address \in DOMAIN C |-> C[address] \/ isIPAddress(address)]

\* resolve(): reactor.resolve(host) for the others, gathered by the call owner
Deferreds(C, owner) ==
  {[address |-> address, owner |-> owner] :
     address \in {a \in Unresolved(C) : ~isIPAddress(a)}}

\* the port configured with a host: dispersy1.tribler.org and the IP address it
\* points to are both configured with port 6421
PortOf(host) == IF host = "dispersy2.tribler.org" THEN 6422 ELSE 6421

\* what reactor.resolve(host) answers: both DNS names point to 130.161.211.245
ResolvedIp(host) == "130.161.211.245"

\* add_candidate(ip, host, port): Candidate((str(ip), port), False).sock_addr
SockAddr(host) ==
  [ip |-> IF isIPAddress(host) THEN host ELSE ResolvedIp(host), port |-> PortOf(host)]

\* candidates / candidate_addresses: the candidates of the entries that are
\* resolved, each with its socket address
candidate_addresses(C) == [address \in {a \in DOMAIN C : C[a]} |-> SockAddr(address)]

\* cancel_pending_task: the LoopingCall no longer waits for anything
Abandoned(L) == {[l EXCEPT !.owner = "start"] : l \in L}

---------------------------------------------------------------------------
(* Walker *)

\* a peer with number k: its LAN and WAN address and whether it is behind a tunnel
Candidate(k, tunnel) ==
  [lan_address |-> << "lan", k >>, wan_address |-> << "wan", k >>, tunnel |-> tunnel]

\* the addresses of a response that introduces nobody
NoAddress == << "0.0.0.0", 0 >>

\* the candidates the requester may be introduced to, tunnelled or not
IntroduceCandidatesAnyTunnel(table, requester) ==
  {c \in table : c.lan_address # requester.lan_address
                   /\ c.wan_address # requester.wan_address}

\* the candidates the requester may be introduced to: never itself, and only
\* candidates without tunnel when the requester has none
IntroduceCandidates(table, requester) ==
  {c \in table : /\ c.lan_address # requester.lan_address
                 /\ c.wan_address # requester.wan_address
                 /\ (~requester.tunnel => ~c.tunnel)}

\* the dispersy-introduction-response for requester that introduces c
Introduction(requester, c) ==
  [destination |-> requester, lan_introduction_address |-> c.lan_address,
   wan_introduction_address |-> c.wan_address]

\* the candidate of a response that introduces nobody
Nobody == [lan_address |-> NoAddress, wan_address |-> NoAddress, tunnel |-> FALSE]

\* the candidates a response can introduce, given the eligible ones
Introduced(eligible) == IF eligible = {} THEN {Nobody} ELSE eligible

---------------------------------------------------------------------------
(* Actions *)

ThisNode ==
  Node(store, double_signed_sync, global_time, timeline, undone, delayed, outstanding,
       identities)

Becomes(n) ==
  /\ store' = n.store
  /\ double_signed_sync' = n.double_signed_sync
  /\ global_time' = n.global_time
  /\ timeline' = n.timeline
  /\ undone' = n.undone
  /\ identities' = n.identities
  /\ delayed' = n.delayed
  /\ outstanding' = n.outstanding

\* the node after construction, with the identities of the members in known
Started(known) ==
  /\ store = {}
  /\ double_signed_sync = {}
  /\ global_time = 1
  /\ timeline = {}
  /\ undone = {}
  /\ delayed = {}
  /\ outstanding = << >>
  /\ sent = << >>
  /\ history = {}
  /\ last = [op |-> "init", packet |-> NoPacket, resumed |-> {}, removed |-> {},
             sync |-> NoSync]
  /\ request_cache = {}
  /\ responses = {}
  /\ calls = << >>
  /\ last_request = [op |-> "init", identifier |-> 0, response |-> None]
  /\ identities = known
  /\ candidates = {}
  /\ introductions = {}
  /\ batch_cache = << >>
  /\ queue = << >>
  /\ pending_commits = 0
  /\ running = {}
  /\ commit_frame = NoFrame
  /\ callbacks = << >>
  /\ closed = [caller |-> FALSE, worker |-> FALSE]
  /\ scopes = << >>
  /\ scheduled = << >>
  /\ executed = << >>
  /\ fired = << >>
  /\ connection_commits = 0
  /\ commit_calls = 0
  /\ storm_last = [op |-> "init", exc_type |-> "", returned |-> FALSE, item |-> NoItem]
  /\ db_pending_commits = 0
  /\ db_commits = 0
  /\ db_scopes = << >>
  /\ db_last = [op |-> "init", exc_type |-> "", returned |-> FALSE]
  /\ database_file = NoFile
  /\ opening = NotOpened
  /\ statements = << >>
  /\ bootstrap_candidates = [address \in Addresses |-> FALSE]
  /\ lookups = {}
  /\ task = FALSE
  /\ failures = [address \in Addresses |-> 0]
  /\ resets = 0
  /\ bootstrap_last = [op |-> "init", unresolved |-> {}]
  /\ missing_requests = << >>
  /\ replies = [candidate \in Requesters |-> << >>]
  /\ community_sync = {}
  /\ community_last = [op |-> "init", database_version |-> 0, updates |-> {}]

\* create_nodes: the nodes of a test have exchanged their identities
Init == Started(Members)

\* the last-N packets given to the node, p included
Given(H, p) == IF Meta(p.meta).last > 0 THEN H \cup {p} ELSE H

\* give_message(p): the node receives packet p from a peer
Received(p, r) ==
  /\ Cardinality(r.node.delayed) <= MaxDelayed
  /\ Becomes(r.node)
  /\ sent' = r.sent
  /\ history' = Given(history, p)
  /\ last' = [op |-> "receive", packet |-> p, resumed |-> r.resumed,
              removed |-> store \ r.node.store, sync |-> NoSync]
  /\ UNCHANGED otherVars

Receive(p) == Received(p, OnIncomingPacket(ThisNode, p))

\* store([p]): the node stores a message it created itself, without the checks
StoreMessage(p) ==
  /\ Becomes(Persist(ThisNode, store, p, FALSE))
  /\ sent' = << >>
  /\ history' = Given(history, p)
  /\ last' = [op |-> "store", packet |-> p, resumed |-> {}, removed |-> store \ store',
              sync |-> NoSync]
  /\ UNCHANGED otherVars

\* the node creates and stores message p: a created message claims a global time
\* above the community's
CreateMessage(p) ==
  /\ p.global_time > global_time
  /\ StoreMessage(p)

\* the delay window of a missing key expires: its packets are discarded
DelayTimeout(key) ==
  /\ key \in PendingKeys(delayed)
  /\ delayed' = {d \in delayed : d.key # key}
  /\ outstanding' = Forget(outstanding, delayed')
  /\ sent' = << >>
  /\ last' = [op |-> "timeout", packet |-> NoPacket, resumed |-> {}, removed |-> {},
             sync |-> NoSync]
  /\ UNCHANGED << store, double_signed_sync, global_time, timeline, undone, history,
                  identities >>
  /\ UNCHANGED otherVars

\* the request is answered from the rows S left at global time now
Answered(w, now, S) ==
  /\ store' = S
  /\ global_time' = now
  /\ \E answer \in Orders(Selected(S, now, w)) :
       sent' = << IntroductionResponse >> \o Packets(answer)
  /\ last' = [op |-> "introduction-request", packet |-> NoPacket, resumed |-> {},
              removed |-> store \ S, sync |-> w]
  /\ UNCHANGED << double_signed_sync, timeline, undone, delayed, outstanding, history,
                  identities >>
  /\ UNCHANGED otherVars

\* the global time once a message with global time gt was accepted
Advanced(gt) == IF gt > global_time THEN gt ELSE global_time

\* the node receives a dispersy-introduction-request with sync window w and
\* global time gt: the global time moves on, then the window is answered
IntroductionRequest(w, gt) == Answered(w, Advanced(gt), Prune(store, Advanced(gt)))

\* create_signature_request(candidate, message, response_func, timeout): the
\* request is cached under a fresh identifier and sent to the other signer
CreateSignatureRequest(identifier, message) ==
  /\ identifier \notin Claimed(request_cache, calls)
  /\ request_cache' = request_cache \cup {[identifier |-> identifier, message |-> message]}
  /\ last_request' = [op |-> "request", identifier |-> identifier, response |-> None]
  /\ UNCHANGED << responses, calls >>
  /\ UNCHANGED pipelineVars
  /\ UNCHANGED << walkerVars, batch_cache, stormVars, databaseVars, startupVars >>

\* the other signer answers the request of identifier, or ignores it
SignatureResponse(request) ==
  /\ \E submsg \in AllowSignature(request.message) :
       responses' = responses \cup {[identifier |-> request.identifier, message |-> submsg]}
  /\ last_request' = [op |-> "answer", identifier |-> request.identifier, response |-> None]
  /\ UNCHANGED << request_cache, calls >>
  /\ UNCHANGED pipelineVars
  /\ UNCHANGED << walkerVars, batch_cache, stormVars, databaseVars, startupVars >>

\* a dispersy-signature-response arrives: without a cached request of its
\* identifier it is dropped, otherwise the request leaves the cache and its
\* handler gets the response
OnSignatureResponse(response) ==
  /\ Len(calls) < MaxCalls
  /\ last_request' = [op |-> "response", identifier |-> response.identifier,
                      response |-> response.message]
  /\ IF \E r \in request_cache : r.identifier = response.identifier
     THEN /\ request_cache' = Popped(request_cache, response.identifier)
          /\ \E r \in request_cache :
               /\ r.identifier = response.identifier
               /\ calls' = Called(calls, r, response.message)
     ELSE UNCHANGED << request_cache, calls >>
  /\ UNCHANGED responses
  /\ UNCHANGED pipelineVars
  /\ UNCHANGED << walkerVars, batch_cache, stormVars, databaseVars, startupVars >>

\* the timeout of a cached request expires: it leaves the cache and its handler
\* gets no response
SignatureRequestTimeout(request) ==
  /\ request \in request_cache
  /\ Len(calls) < MaxCalls
  /\ request_cache' = Popped(request_cache, request.identifier)
  /\ calls' = Called(calls, request, None)
  /\ last_request' = [op |-> "timeout", identifier |-> request.identifier,
                      response |-> None]
  /\ UNCHANGED responses
  /\ UNCHANGED pipelineVars
  /\ UNCHANGED << walkerVars, batch_cache, stormVars, databaseVars, startupVars >>

\* on_incoming_packets with a batch of dispersy-introduction-request without
\* sync window: every requester enters the peer table, then each gets a response
OnIntroductionRequests(batch) ==
  /\ batch # {}
  /\ candidates' = candidates \cup batch
  /\ \E answer \in [batch -> candidates \cup batch \cup {Nobody}] :
       /\ \A r \in batch :
            answer[r] \in Introduced(IntroduceCandidates(candidates \cup batch, r))
       /\ introductions' = {Introduction(r, answer[r]) : r \in batch}
  /\ UNCHANGED pipelineVars
  /\ UNCHANGED << requestVars, batch_cache, stormVars, databaseVars, startupVars >>

\* a candidate that was not heard of for too long leaves the peer table
CandidateTimeout(c) ==
  /\ c \in candidates
  /\ candidates' = candidates \ {c}
  /\ introductions' = {}
  /\ UNCHANGED pipelineVars
  /\ UNCHANGED << requestVars, batch_cache, stormVars, databaseVars, startupVars >>

\* the outcome r of step op, which handled the packets ps
Gave(op, ps, r) ==
  /\ Becomes(r.node)
  /\ sent' = r.sent
  /\ history' = history \cup {ps[i] : i \in {j \in DOMAIN ps : Meta(ps[j].meta).last > 0}}
  /\ last' = [op |-> op, packet |-> NoPacket, resumed |-> r.resumed,
              removed |-> store \ r.node.store, sync |-> NoSync]

\* give_messages(ps, source, cache): the packets of a meta with a batch window
\* wait in the batch cache, the others go through the pipeline at once
GiveMessages(ps, cache) ==
  /\ batch_cache' = batch_cache \o SelectSeq(ps, LAMBDA p : Batched(p, cache))
  /\ Len(batch_cache') <= MaxBatch
  /\ Gave("give", ps, OnIncomingPackets([node |-> ThisNode, sent |-> << >>, resumed |-> {}],
                                SelectSeq(ps, LAMBDA p : ~Batched(p, cache))))
  /\ UNCHANGED << requestVars, walkerVars, stormVars, databaseVars, startupVars >>

\* the batch window expires: the cached packets go through the pipeline, each
\* distinct packet once
OnBatchCache ==
  /\ batch_cache # << >>
  /\ batch_cache' = << >>
  /\ Gave("batch", batch_cache,
          OnIncomingPackets([node |-> ThisNode, sent |-> << >>, resumed |-> {}],
                            Distinct(batch_cache)))
  /\ UNCHANGED << requestVars, walkerVars, stormVars, databaseVars, startupVars >>

\* what the steps of the StormDBManager leave alone
nodeVars == << pipelineVars, requestVars, walkerVars, batch_cache >>

\* schedule_query(callable, ...): execute, fetchone, fetchall, insert, ...
ScheduleQuery ==
  /\ ~closed.caller
  /\ Len(scheduled) < MaxQueries
  /\ queue' = Append(queue, Query(Len(scheduled) + 1))
  /\ scheduled' = Append(scheduled, Len(scheduled) + 1)
  /\ storm_last' = [op |-> "schedule", exc_type |-> "", returned |-> FALSE,
                    item |-> Query(Len(scheduled) + 1)]
  /\ UNCHANGED << pending_commits, running, commit_frame, callbacks, closed, scopes,
                  executed, fired, connection_commits, commit_calls >>
  /\ UNCHANGED << nodeVars, databaseVars, startupVars >>

\* commit(exiting): the bool goes on the queue
StormCommit ==
  /\ ~closed.caller
  /\ commit_calls < MaxCommitCalls
  /\ commit_calls' = commit_calls + 1
  /\ queue' = Append(queue, CommitItem(FALSE, scopes # << >>))
  /\ scopes' = Requested(scopes)
  /\ storm_last' = [op |-> "commit", exc_type |-> "", returned |-> FALSE,
                    item |-> CommitItem(FALSE, scopes # << >>)]
  /\ UNCHANGED << pending_commits, running, commit_frame, callbacks, closed, scheduled,
                  executed, fired, connection_commits >>
  /\ UNCHANGED << nodeVars, databaseVars, startupVars >>

\* __enter__ of StormDBManager
StormEnter ==
  /\ ~closed.caller
  /\ Len(scopes) < MaxDepth
  /\ pending_commits' = Entered(pending_commits)
  /\ scopes' = Append(scopes, 0)
  /\ storm_last' = [op |-> "enter", exc_type |-> "", returned |-> FALSE, item |-> NoItem]
  /\ UNCHANGED << queue, running, commit_frame, callbacks, closed, scheduled, executed,
                  fired, connection_commits, commit_calls >>
  /\ UNCHANGED << nodeVars, databaseVars, startupVars >>

\* __exit__(exc_type, exc_value, traceback) of StormDBManager
StormExit(exc_type) ==
  /\ ~closed.caller
  /\ scopes # << >>
  /\ pending_commits' = 0
  /\ queue' = IF ExitCommits(exc_type, pending_commits)
              THEN Append(Leave(queue, exc_type, Len(scopes)), CommitItem(FALSE, FALSE))
              ELSE Leave(queue, exc_type, Len(scopes))
  /\ scopes' = Left(scopes)
  /\ storm_last' = [op |-> "exit", exc_type |-> exc_type, item |-> NoItem,
                    returned |-> ExitReturns(exc_type)]
  /\ UNCHANGED << running, commit_frame, callbacks, closed, scheduled, executed, fired,
                  connection_commits, commit_calls >>
  /\ UNCHANGED << nodeVars, databaseVars, startupVars >>

\* close(commit): an exiting commit, then None
Close(commit) ==
  /\ ~closed.caller
  /\ scopes = << >>
  /\ closed' = [closed EXCEPT !.caller = TRUE]
  /\ queue' = queue \o (IF commit THEN << CommitItem(TRUE, FALSE) >> ELSE << >>)
                    \o << CloseItem >>
  /\ storm_last' = [op |-> "close", exc_type |-> "", returned |-> FALSE, item |-> NoItem]
  /\ UNCHANGED << pending_commits, running, commit_frame, callbacks, scopes, scheduled,
                  executed, fired, connection_commits, commit_calls >>
  /\ UNCHANGED << nodeVars, databaseVars, startupVars >>

\* start_worker, item = self._queue.get() with a tuple: func(self, *args, **kwargs)
\* starts on the connection
WorkerQuery(item) ==
  /\ running' = running \cup {item}
  /\ UNCHANGED << pending_commits, commit_frame, closed, connection_commits >>

\* start_worker with a bool: _commit(exiting=item) reads _pending_commits, and
\* commits when it is 0
WorkerCommit(item) ==
  /\ IF pending_commits # 0
     THEN /\ pending_commits < MaxPending
          /\ commit_frame' = [active |-> TRUE, loaded |-> pending_commits]
          /\ UNCHANGED connection_commits
     ELSE /\ connection_commits < MaxPerformed
          /\ connection_commits' = connection_commits + 1
          /\ UNCHANGED commit_frame
  /\ UNCHANGED << pending_commits, running, closed >>

\* start_worker with None: the loop ends
WorkerBreak(item) ==
  /\ closed' = [closed EXCEPT !.worker = TRUE]
  /\ UNCHANGED << pending_commits, running, commit_frame, connection_commits >>

\* the worker takes the next item from the queue
WorkerGet ==
  /\ Idle(running, commit_frame, closed.worker)
  /\ queue # << >>
  /\ queue' = Tail(queue)
  /\ CASE Head(queue).kind \in {"query", "script"} -> WorkerQuery(Head(queue))
       [] Head(queue).kind = "commit" -> WorkerCommit(Head(queue))
       [] OTHER -> WorkerBreak(Head(queue))
  /\ storm_last' = [op |-> "get", exc_type |-> "", returned |-> FALSE, item |-> Head(queue)]
  /\ UNCHANGED << callbacks, scopes, scheduled, executed, fired, commit_calls >>
  /\ UNCHANGED << nodeVars, databaseVars, startupVars >>

\* _commit: self._pending_commits += 1, after the caller may have changed it:
\* one more than what the test read, or one more than what is there now
WorkerDefer ==
  /\ commit_frame.active
  /\ \E loaded \in {commit_frame.loaded, pending_commits} : pending_commits' = loaded + 1
  /\ commit_frame' = NoFrame
  /\ storm_last' = [op |-> "defer", exc_type |-> "", returned |-> FALSE, item |-> NoItem]
  /\ UNCHANGED << queue, running, callbacks, closed, scopes, scheduled, executed, fired,
                  connection_commits, commit_calls >>
  /\ UNCHANGED << nodeVars, databaseVars, startupVars >>

\* the query returns: reactor.callFromThread(deferred.callback, res)
WorkerRun(item) ==
  /\ item \in running
  /\ running' = running \ {item}
  /\ executed' = Append(executed, item.id)
  /\ callbacks' = Append(callbacks, item.id)
  /\ storm_last' = [op |-> "run", exc_type |-> "", returned |-> FALSE, item |-> item]
  /\ UNCHANGED << queue, pending_commits, commit_frame, closed, scopes, scheduled, fired,
                  connection_commits, commit_calls >>
  /\ UNCHANGED << nodeVars, databaseVars, startupVars >>

\* the reactor thread runs the next callback: the deferred fires
Callback ==
  /\ callbacks # << >>
  /\ fired' = Append(fired, Head(callbacks))
  /\ callbacks' = Tail(callbacks)
  /\ storm_last' = [op |-> "callback", exc_type |-> "", returned |-> FALSE, item |-> NoItem]
  /\ UNCHANGED << queue, pending_commits, running, commit_frame, closed, scopes,
                  scheduled, executed, connection_commits, commit_calls >>
  /\ UNCHANGED << nodeVars, databaseVars, startupVars >>

\* executescript(sql_statements): the tuple with _executescript goes on the queue
ExecuteScript ==
  /\ ~closed.caller
  /\ ScriptItem.id \notin {scheduled[i] : i \in DOMAIN scheduled}
  /\ queue' = Append(queue, ScriptItem)
  /\ scheduled' = Append(scheduled, ScriptItem.id)
  /\ storm_last' = [op |-> "schedule", exc_type |-> "", returned |-> FALSE,
                    item |-> ScriptItem]
  /\ UNCHANGED << pending_commits, running, commit_frame, callbacks, closed, scopes,
                  executed, fired, connection_commits, commit_calls >>
  /\ UNCHANGED << nodeVars, databaseVars, startupVars >>

\* _executescript on the worker: self.execute(sql_statement) for every statement
\* is the method of the manager, which puts a tuple on the queue
QueuedByScript(Q) == Q \o [k \in 1..MaxStatements |-> Statement(k)]

\* _executescript returns: reactor.callFromThread(deferred.callback, res)
WorkerScript ==
  /\ ScriptItem \in running
  /\ running' = running \ {ScriptItem}
  /\ queue' = QueuedByScript(queue)
  /\ executed' = Append(executed, ScriptItem.id)
  /\ callbacks' = Append(callbacks, ScriptItem.id)
  /\ storm_last' = [op |-> "run", exc_type |-> "", returned |-> FALSE,
                    item |-> ScriptItem]
  /\ UNCHANGED << pending_commits, commit_frame, closed, scopes, scheduled, fired,
                  connection_commits, commit_calls >>
  /\ UNCHANGED << nodeVars, databaseVars, startupVars >>

\* func(self, *args, **kwargs) raises: the exception leaves the loop of
\* start_worker and the thread ends, the deferred of the item is not called
WorkerRaise(item) ==
  /\ item \in running
  /\ running' = running \ {item}
  /\ closed' = [closed EXCEPT !.worker = TRUE]
  /\ storm_last' = [op |-> "raise", exc_type |-> "Exception", returned |-> FALSE,
                    item |-> item]
  /\ UNCHANGED << queue, pending_commits, commit_frame, callbacks, scopes, scheduled,
                  executed, fired, connection_commits, commit_calls >>
  /\ UNCHANGED << nodeVars, databaseVars, startupVars >>

\* Database.commit(): counted inside a no-commit state, else committed
DatabaseCommit ==
  /\ IF db_pending_commits # 0
     THEN /\ db_pending_commits < MaxPending
          /\ db_pending_commits' = db_pending_commits + 1
          /\ UNCHANGED db_commits
     ELSE /\ db_commits < MaxPerformed
          /\ db_commits' = db_commits + 1
          /\ UNCHANGED db_pending_commits
  /\ db_scopes' = Requested(db_scopes)
  /\ db_last' = [op |-> "commit", exc_type |-> "", returned |-> FALSE]
  /\ UNCHANGED << nodeVars, stormVars, startupVars >>

\* Database.__enter__
DatabaseEnter ==
  /\ Len(db_scopes) < MaxDepth
  /\ db_pending_commits' = Entered(db_pending_commits)
  /\ db_scopes' = Append(db_scopes, 0)
  /\ db_last' = [op |-> "enter", exc_type |-> "", returned |-> FALSE]
  /\ UNCHANGED db_commits
  /\ UNCHANGED << nodeVars, stormVars, startupVars >>

\* Database.__exit__(exc_type, exc_value, traceback): the pending commits are
\* reset, then self.commit() commits at once
DatabaseExit(exc_type) ==
  /\ db_scopes # << >>
  /\ db_pending_commits' = 0
  /\ IF ExitCommits(exc_type, db_pending_commits)
     THEN db_commits < MaxPerformed /\ db_commits' = db_commits + 1
     ELSE UNCHANGED db_commits
  /\ db_scopes' = Left(db_scopes)
  /\ db_last' = [op |-> "exit", exc_type |-> exc_type,
                 returned |-> ExitReturns(exc_type)]
  /\ UNCHANGED << nodeVars, stormVars, startupVars >>

\* what the steps of the DispersyDatabase leave alone
serviceVars ==
  << nodeVars, stormVars, databaseVars, bootstrapVars, repairVars, communityVars >>

\* the test copies dispersy_v<version>.db to the path of the database (version 0:
\* there is no file); old_sync is there when an upgrade to 20 was interrupted
CopyFile(version, rows, old_sync) ==
  /\ opening.state = "init"
  /\ database_file' =
       IF version = 0 THEN NoFile
       ELSE [option |-> version, member |-> MemberColumns(version),
             sync_unique |-> SyncUnique, sync |-> rows, old_sync |-> old_sync]
  /\ opening' = [NotOpened EXCEPT !.state = "file", !.op = "copy"]
  /\ statements' = << >>
  /\ UNCHANGED serviceVars

\* _prepare_version reads database_version; check_database creates the schema,
\* raises RuntimeError or goes on to the upgrades
CheckDatabase ==
  /\ opening.state = "file"
  /\ IF database_file.option = 0
     THEN /\ database_file' = Schema
          /\ statements' = Append(statements, [script |-> "schema",
                                               version |-> LATEST_VERSION])
          /\ opening' = [opening EXCEPT !.state = "return", !.op = "check",
                                        !.database_version = 0]
     ELSE /\ opening' =
               [opening EXCEPT !.state = IF Refused(database_file.option)
                                         THEN "failed" ELSE "upgrade",
                               !.op = "check", !.next = 17,
                               !.database_version = database_file.option]
          /\ UNCHANGED << database_file, statements >>
  /\ UNCHANGED serviceVars

\* if database_version < target: the upgrade script to target
Upgrade(target) ==
  /\ opening.state = "upgrade"
  /\ opening.next = target
  /\ IF Applies(opening.database_version, target)
     THEN /\ database_file' = Script(database_file, target)
          /\ statements' = Append(statements, [script |-> "upgrade", version |-> target])
     ELSE UNCHANGED << database_file, statements >>
  /\ opening' = [opening EXCEPT !.state = IF target = LATEST_VERSION
                                          THEN "return" ELSE "upgrade",
                                !.op = "upgrade", !.next = target + 1]
  /\ UNCHANGED serviceVars

\* returnValue(LATEST_VERSION): self._version = check_database(version)
OpenReturns ==
  /\ opening.state = "return"
  /\ opening' = [opening EXCEPT !.state = "opened", !.op = "return",
                                !.version = LATEST_VERSION]
  /\ UNCHANGED << database_file, statements >>
  /\ UNCHANGED serviceVars

\* INSERT INTO sync on the opened database: sqlite rejects the row when it
\* conflicts with the UNIQUE constraint
InsertSync(member, time, sequence) ==
  /\ opening.state = "opened"
  /\ Cardinality(database_file.sync) < MaxRows
  /\ database_file' =
       IF Conflicts(database_file.sync_unique, database_file.sync,
                    SyncRow(0, member, time, sequence))
       THEN database_file
       ELSE [database_file EXCEPT
               !.sync = @ \cup {SyncRow(Cardinality(@) + 1, member, time, sequence)}]
  /\ opening' = [opening EXCEPT !.op = "insert",
                                !.row = SyncRow(0, member, time, sequence)]
  /\ UNCHANGED statements
  /\ UNCHANGED serviceVars

\* close(), and the file is opened again by a new DispersyDatabase
Reopen ==
  /\ opening.state = "opened"
  /\ opening' = [NotOpened EXCEPT !.state = "file", !.op = "close"]
  /\ statements' = << >>
  /\ UNCHANGED database_file
  /\ UNCHANGED serviceVars

\* the node handles a batch of dispersy-missing-sequence requests for the
\* messages of member and meta
OnMissingSequence(batch, member, meta) ==
  /\ batch # << >>
  /\ missing_requests' = batch
  /\ replies' = [candidate \in Requesters |->
                   MissingSequenceReply(store, batch, candidate, member, meta)]
  /\ sent' = << >>
  /\ last' = [op |-> "missing-sequence", packet |-> NoPacket, resumed |-> {},
              removed |-> {}, sync |-> NoSync]
  /\ UNCHANGED << store, double_signed_sync, global_time, timeline, undone, delayed,
                  outstanding, history, identities >>
  /\ UNCHANGED << requestVars, walkerVars, batch_cache, stormVars, databaseVars,
                  openVars, bootstrapVars, communityVars >>

\* what the steps of the Bootstrap leave alone
restVars == << nodeVars, stormVars, databaseVars, openVars, repairVars, communityVars >>

\* resolve_bootstrap_servers(), called by owner with the task registered or not
ResolveBootstrapServers(owner, registered) ==
  /\ IF all_resolved(bootstrap_candidates)
     THEN /\ task' = FALSE
          /\ lookups' = Abandoned(lookups)
          /\ UNCHANGED bootstrap_candidates
     ELSE /\ task' = registered
          /\ bootstrap_candidates' = AddedAtOnce(bootstrap_candidates)
          /\ lookups' = lookups \cup Deferreds(bootstrap_candidates, owner)
  /\ bootstrap_last' = [op |-> owner, unresolved |-> Unresolved(bootstrap_candidates)]
  /\ UNCHANGED << failures, resets >>
  /\ UNCHANGED restVars

\* start(interval): the LoopingCall is registered if it is not, then
\* resolve_bootstrap_servers() is called
BootstrapStart == ResolveBootstrapServers("start", TRUE)

\* the interval has passed and the previous call of the LoopingCall has fired
LoopingCall ==
  /\ task
  /\ \A l \in lookups : l.owner # "loop"
  /\ ResolveBootstrapServers("loop", TRUE)

\* a lookup succeeds: add_candidate(ip, host, port)
AddCandidate(l) ==
  /\ l \in lookups
  /\ lookups' = lookups \ {l}
  /\ bootstrap_candidates' = [bootstrap_candidates EXCEPT ![l.address] = TRUE]
  /\ bootstrap_last' = [op |-> "add_candidate", unresolved |-> {}]
  /\ UNCHANGED << task, failures, resets >>
  /\ UNCHANGED restVars

\* a lookup fails: no_candidate(host, port)
NoCandidate(l) ==
  /\ l \in lookups
  /\ failures[l.address] < MaxFailures
  /\ lookups' = lookups \ {l}
  /\ failures' = [failures EXCEPT ![l.address] = @ + 1]
  /\ bootstrap_last' = [op |-> "no_candidate", unresolved |-> {}]
  /\ UNCHANGED << bootstrap_candidates, task, resets >>
  /\ UNCHANGED restVars

\* reset(): all previously resolved addresses are removed
BootstrapReset ==
  /\ resets < MaxResets
  /\ resets' = resets + 1
  /\ bootstrap_candidates' = [address \in DOMAIN bootstrap_candidates |-> FALSE]
  /\ bootstrap_last' = [op |-> "reset", unresolved |-> {}]
  /\ UNCHANGED << lookups, task, failures >>
  /\ UNCHANGED restVars

\* every key a packet can be suspended under
AllKeys(U) ==
  {SequenceKey(p) : p \in U} \cup {ProofKey(p) : p \in U} \cup {MessageKey(p) : p \in U}
    \cup {IdentityKey(p) : p \in U}

---------------------------------------------------------------------------
(* Full sync with and without sequence numbers: one creator, conflicting packets *)

SequenceUniverse ==
  {Msg("sequence-text", "A", "", g, s, 0, 1, "") : g \in 1..MaxGT, s \in 1..MaxSeq}

\* full-sync-text packets that share member and global time: two payloads, each
\* signed twice
FullSyncUniverse ==
  {Msg("full-sync-text", "A", "", MaxGT, 0, pl, sig, "") : pl \in 1..2, sig \in 1..2}

Universe == SequenceUniverse \cup FullSyncUniverse

Next ==
  \/ \E p \in Universe : Receive(p)
  \/ \E p \in FullSyncUniverse : StoreMessage(p)
  \/ \E k \in AllKeys(Universe) : DelayTimeout(k)

Spec == Init /\ [][Next]_vars

---------------------------------------------------------------------------
(* C1 *)

\* C1: in every reachable state the store holds at most one message for each
\* (member, global_time), whatever packets were received or stored, the same
\* packet twice and distinct packets with the same member and global time included.
UniqueMemberGlobalTime ==
  \A r1 \in store : \A r2 \in store :
    (r1.member = r2.member /\ r1.global_time = r2.global_time) => r1 = r2

\* a packet arrived or was stored while another packet with the same member and
\* global time was in the store, and one row is kept for the pair
UniqueMemberGlobalTimeWitness ==
  /\ last.op \in {"receive", "store"}
  /\ \E r \in store : /\ r.member = last.packet.member
                      /\ r.global_time = last.packet.global_time
                      /\ r.packet # last.packet
                      /\ r.packet.payload # last.packet.payload

---------------------------------------------------------------------------
(* C2 *)

SequenceMetas == {"sequence-text"}
Creators == {"A"}

---------------------------------------------------------------------------
(* C3 *)

\* the step receives packet p, whose sequence number leaves a gap after the
\* stored ones
GapStep(p) ==
  /\ last'.op = "receive"
  /\ last'.packet = p
  /\ p.sequence > LastSequence(store, p.member, p.meta) + 1

\* the step fills the gap in front of the suspended packet d, which is a correct
\* successor of the stored #s-1 and has no rival for its sequence number or its
\* (member, global_time)
GapFilled(d) ==
  LET p == d.packet
      rows == RowsOf(store', p.member, p.meta) \ {Row(p)}
  IN /\ d \in delayed
     /\ d.key.kind = "sequence"
     /\ last'.op = "receive"
     /\ \E r \in rows : r.sequence = p.sequence - 1 /\ r.global_time < p.global_time
     /\ ~\E r \in rows : r.sequence >= p.sequence
     /\ ~\E r \in store' \ {Row(p)} : r.member = p.member /\ r.global_time = p.global_time
     /\ ~\E e \in delayed \ {d} : e.packet.sequence = p.sequence

\* C3: a node that has stored #1..#j and receives #s with s > j+1 does not store
\* #s at that moment; exactly one dispersy-missing-sequence is emitted for the gap
\* while it is pending, naming the member and meta with missing_low = j+1 and
\* missing_high = s-1; once #j+1..#s-1 have been delivered, #1..#s are all stored.
MissingSequenceRepair ==
  [][ /\ \A p \in SequenceUniverse :
           GapStep(p) =>
             /\ store' = store
             /\ [packet |-> p, key |-> SequenceKey(p)] \in delayed'
             /\ outstanding'[SequenceKey(p)] = 1
             /\ IF SequenceKey(p) \in PendingKeys(delayed) THEN sent' = << >>
                ELSE /\ Len(sent') = 1
                     /\ sent'[1].name = "dispersy-missing-sequence"
                     /\ sent'[1].member = p.member
                     /\ sent'[1].meta = p.meta
                     /\ sent'[1].low = LastSequence(store, p.member, p.meta) + 1
                     /\ sent'[1].high = p.sequence - 1
      /\ \A d \in delayed :
           GapFilled(d) =>
             /\ Row(d.packet) \in store'
             /\ {r.sequence : r \in RowsOf(store', d.packet.member, d.packet.meta)}
                  = 1..d.packet.sequence
    ]_vars

\* #3 arrived first and was suspended with one request outstanding; after #1 and
\* #2 were delivered it was re-evaluated and #1..#3 are stored
MissingSequenceRepairWitness ==
  /\ last.op = "receive"
  /\ last.packet.sequence = 2
  /\ \E q \in last.resumed : q.sequence = 3 /\ Row(q) \in store
  /\ {r.sequence : r \in RowsOf(store, "A", "sequence-text")} = 1..3

---------------------------------------------------------------------------
(* Permission-protected messages: the master member grants, a member delegates *)

\* protected-full-sync-text of the members A and B
ProtectedUniverse ==
  {Msg("protected-full-sync-text", m, "", g, 0, 0, 1, "") : m \in {"A", "B"}, g \in 1..MaxGT}

\* dispersy-authorize for the protected meta: the master member grants to A, and A
\* passes the permission on to B
AuthorizeUniverse ==
  {Msg("dispersy-authorize", "M", "", g, 0, 0, 1, "A") : g \in 1..MaxGT}
    \cup {Msg("dispersy-authorize", "A", "", g, 0, 0, 1, "B") : g \in 1..MaxGT}

ProofUniverse == ProtectedUniverse \cup AuthorizeUniverse

NextProof ==
  \/ \E p \in ProofUniverse : Receive(p)
  \/ \E k \in AllKeys(ProofUniverse) : DelayTimeout(k)

SpecProof == Init /\ [][NextProof]_vars

---------------------------------------------------------------------------
(* C4 *)

\* no grant in the timeline covers member at global time gt
NoProof(member, gt) ==
  /\ member # Master
  /\ ~\E g \in timeline : g.member = member /\ g.meta = GrantedMeta /\ g.global_time < gt

\* the step receives the protected packet p, whose creator has no proof
UnprovenStep(p) ==
  /\ last'.op = "receive"
  /\ last'.packet = p
  /\ NoProof(p.member, p.global_time)

\* the step accepts an authorize that grants the creator of the suspended packet
\* d its permission; no other message holds d's (member, global_time)
GrantStep(d) ==
  /\ d \in delayed
  /\ d.key.kind = "proof"
  /\ d.packet.meta = GrantedMeta
  /\ last'.op = "receive"
  /\ last'.packet.meta = "dispersy-authorize"
  /\ Row(last'.packet) \in store' \ store
  /\ last'.packet.target = d.packet.member
  /\ last'.packet.global_time < d.packet.global_time
  /\ ~\E r \in store' \ {Row(d.packet)} :
        r.member = d.packet.member /\ r.global_time = d.packet.global_time

\* C4: a protected message whose creator's permission the timeline cannot prove at
\* the message's global time is not stored but suspended; exactly one
\* dispersy-missing-proof is emitted for it while it is pending, carrying the
\* creator and that global time; when the granting dispersy-authorize is received
\* afterwards the suspended message is re-evaluated, accepted and stored.
MissingProofRepair ==
  [][ /\ \A p \in ProtectedUniverse :
           UnprovenStep(p) =>
             /\ store' = store
             /\ Row(p) \notin store'
             /\ [packet |-> p, key |-> ProofKey(p)] \in delayed'
             /\ outstanding'[ProofKey(p)] = 1
             /\ IF ProofKey(p) \in PendingKeys(delayed) THEN sent' = << >>
                ELSE /\ Len(sent') = 1
                     /\ sent'[1].name = "dispersy-missing-proof"
                     /\ sent'[1].member = p.member
                     /\ sent'[1].low = p.global_time
      /\ \A d \in delayed :
           GrantStep(d) =>
             /\ d.packet \in last'.resumed
             /\ Row(d.packet) \in store'
             /\ d \notin delayed'
    ]_vars

\* the authorize of the master member for A arrived while a protected message of
\* A was suspended with one request sent; the message is now stored
MissingProofRepairWitness ==
  /\ last.op = "receive"
  /\ last.packet.meta = "dispersy-authorize"
  /\ last.packet.member = Master
  /\ \E q \in last.resumed :
       /\ q.meta = GrantedMeta
       /\ q.member = "A"
       /\ q.global_time > last.packet.global_time
       /\ Row(q) \in store

---------------------------------------------------------------------------
(* Pruning: messages of a pruning meta and of a normal meta, spread over more *)
(* than a prune_threshold of global time                                       *)

PruneTimes == {k * (inactive_threshold \div 2) : k \in 1..MaxPruneStep}

PruningUniverse ==
  {Msg("full-sync-global-time-pruning-text", "A", "", g, 0, 0, 1, "") : g \in PruneTimes}

NormalUniverse ==
  {Msg("full-sync-text", "A", "", g, 0, 0, 1, "") : g \in PruneTimes}

NextPrune ==
  \/ \E p \in PruningUniverse \cup NormalUniverse : CreateMessage(p)
  \/ \E p \in PruningUniverse \cup NormalUniverse : Receive(p)

SpecPrune == Init /\ [][NextPrune]_vars

---------------------------------------------------------------------------
(* C5 *)

\* C5: with inactive_threshold 10 and prune_threshold 20, in every state reached
\* by creating or accepting messages of any meta no message of the pruning meta
\* is stored at a distance current_gt - global_time >= prune_threshold, and every
\* message of the meta is exactly one of active (distance < inactive), inactive
\* (inactive <= distance < prune) and pruned (prune <= distance).
PruningInvariant ==
  /\ inactive_threshold = 10
  /\ prune_threshold = 20
  /\ \A r \in store :
       Meta(r.meta).pruning => global_time - r.global_time < prune_threshold
  /\ \A p \in PruningUniverse :
       LET d == global_time - p.global_time
           state == PruningState(global_time, p.global_time)
       IN /\ state \in {"active", "inactive", "pruned"}
          /\ state = "active" <=> d < inactive_threshold
          /\ state = "inactive" <=> (inactive_threshold <= d /\ d < prune_threshold)
          /\ state = "pruned" <=> prune_threshold <= d

\* a message of the normal meta moved the global time on; a pruning message that
\* was stored left the store in that step and an inactive one is still stored
PruningInvariantWitness ==
  /\ last.op \in {"receive", "store"}
  /\ ~Meta(last.packet.meta).pruning
  /\ last.packet.global_time = global_time
  /\ \E r \in last.removed :
       Meta(r.meta).pruning /\ global_time - r.global_time >= prune_threshold
  /\ \E r \in store :
       Meta(r.meta).pruning /\ PruningState(global_time, r.global_time) = "inactive"

---------------------------------------------------------------------------
(* Last-N, one signer: a last-1 history of member A and a last-9 history of B *)

Last1Universe ==
  {Msg("last-1-test", "A", "", g, 0, 0, 1, "") : g \in 1..MaxLast1GT}

Last9Universe ==
  {Msg("last-9-test", "B", "", g, 0, 0, 1, "") : g \in 1..MaxLastGT}

LastUniverse == Last1Universe \cup Last9Universe

NextLast == \E p \in LastUniverse : Receive(p)

SpecLast == Init /\ [][NextLast]_vars

---------------------------------------------------------------------------
(* C6 *)

\* the n greatest elements of T (all of T when it has fewer)
Greatest(T, n) == {t \in T : Cardinality({u \in T : u > t}) < n}

\* the last-N histories of the universe: creating member and meta
LastKeys == {[member |-> p.member, meta |-> p.meta] : p \in LastUniverse}

\* the global times of the packets given to the node for key k
GivenTimes(k) == {p.global_time : p \in {q \in history : q.member = k.member /\ q.meta = k.meta}}

\* the store holds the N newest messages given for every key
LastKept ==
  \A k \in LastKeys :
    LET rows == RowsOf(store, k.member, k.meta)
    IN /\ Cardinality(rows) <= Meta(k.meta).last
       /\ \A r \in rows : r.packet \in history
       /\ GlobalTimes(rows) = Greatest(GivenTimes(k), Meta(k.meta).last)

\* a step that receives p while the history of its key is full drops p when it is
\* older than all stored ones, and lets it take the place of the oldest when
\* it is newer than that one
LastStep ==
  \A p \in LastUniverse :
    LET rows == RowsOf(store, p.member, p.meta)
        tim == GlobalTimes(rows)
    IN (/\ last'.op = "receive"
        /\ last'.packet = p
        /\ Cardinality(rows) = Meta(p.meta).last
        /\ p.global_time \notin tim)
       => IF p.global_time < Min(tim)
          THEN store' = store
          ELSE store' = (store \ {r \in rows : r.global_time = Min(tim)}) \cup {Row(p)}

\* C6: for a last-N meta the store holds at most N messages per key in every
\* reachable state, and after any sequence of arrivals the stored messages of a
\* key are the N with the greatest global time among all messages received for
\* that key (fewer when fewer were received): a message older than all N stored
\* ones is dropped, a newer one evicts the stored message with the lowest global
\* time.
LastSyncInvariant == [](LastKept) /\ [][LastStep]_vars

\* the last-9 history was full, a newer message arrived and the oldest stored
\* one left the store; the last-1 history holds its newest message
LastSyncInvariantWitness ==
  /\ last.op = "receive"
  /\ last.packet.meta = "last-9-test"
  /\ Row(last.packet) \in store
  /\ Cardinality(RowsOf(store, "B", "last-9-test")) = 9
  /\ \E r \in last.removed : r.meta = "last-9-test" /\ r.global_time < last.packet.global_time
  /\ Cardinality(RowsOf(store, "A", "last-1-test")) = 1
  /\ Cardinality({p \in history : p.meta = "last-1-test"}) > 1

---------------------------------------------------------------------------
(* Last-1 with two signers: the pairs (A,B), (B,A) and (A,C) *)

SignerPairs == {<< "A", "B" >>, << "B", "A" >>, << "A", "C" >>}

DoubleUniverse ==
  {Msg("last-1-doublemember-text", s[1], s[2], g, 0, 0, 1, "") :
     s \in SignerPairs, g \in 1..MaxGT}

NextDouble == \E p \in DoubleUniverse : Receive(p)

SpecDouble == Init /\ [][NextDouble]_vars

---------------------------------------------------------------------------
(* C7 *)

\* the unordered pair of signers of packet p
PairOf(p) == {p.member, p.cosigner}

\* the stored double-signed rows whose signers are the pair k
PairRows(S, k) == {r \in S : Meta(r.meta).double /\ PairOf(r.packet) = k}

\* one slot per pair; every double-signed row of sync has its row in
\* double_signed_sync, with member1 the smaller and member2 the larger id
DoubleKept ==
  /\ \A p \in DoubleUniverse : Cardinality(PairRows(store, PairOf(p))) <= 1
  /\ \A r \in store :
       Meta(r.meta).double =>
         \E d \in double_signed_sync :
           /\ d.member = r.member
           /\ d.global_time = r.global_time
           /\ d.member1 < d.member2
           /\ {d.member1, d.member2} = {database_id(m) : m \in PairOf(r.packet)}
  /\ \A d \in double_signed_sync :
       /\ d.member1 < d.member2
       /\ \E r \in store : r.member = d.member /\ r.global_time = d.global_time

\* a step that receives p drops it when its pair holds a message with an equal or
\* higher global time, and otherwise stores it in place of the pair's message,
\* unless another message holds p's (member, global_time)
DoubleStep ==
  \A p \in DoubleUniverse :
    LET rows == PairRows(store, PairOf(p))
    IN (last'.op = "receive" /\ last'.packet = p)
       => IF \E r \in rows : p.global_time <= r.global_time
          THEN store' = store
          ELSE IF IsDuplicateSyncMessage(store, p)
               THEN store' = store
               ELSE store' = (store \ rows) \cup {Row(p)}

---------------------------------------------------------------------------
(* Sync: a store of pruning messages and one normal message, asked for through *)
(* windows of every modulo and offset, two ranges and two bloom filters         *)

SyncStride == inactive_threshold \div 2

SyncPruningUniverse ==
  {Msg("full-sync-global-time-pruning-text", "A", "", k * SyncStride, 0, 0, 1, "") :
     k \in 1..MaxSyncStep}

SyncNormalUniverse ==
  {Msg("full-sync-text", "A", "", (MaxSyncStep + 1) * SyncStride, 0, 0, 1, "")}

SyncUniverse == SyncPruningUniverse \cup SyncNormalUniverse

\* the newest pruning message, the one the non-empty bloom filter holds
BloomPackets ==
  {p \in SyncPruningUniverse : p.global_time = MaxSyncStep * SyncStride}

\* the windows of the requests: every slice over the whole range with an empty
\* bloom filter; both ranges and both bloom filters for the slices of modulo 1, 2
SyncWindows ==
  {w \in [time_low : {1, inactive_threshold},
          time_high : {0, inactive_threshold + SyncStride},
          modulo : 1..MaxModulo,
          offset : 0..(MaxModulo - 1),
          bloom_filter : {{}, BloomPackets}] :
     /\ w.offset < w.modulo
     /\ \/ w.modulo <= 2
        \/ w.time_low = 1 /\ w.time_high = 0 /\ w.bloom_filter = {}}

\* the global time of a request: 1 (leaves the global time alone) or the highest
\* global time of the universe
RequestTimes == {1, (MaxSyncStep + 1) * SyncStride}

NextSync ==
  \/ \E p \in SyncUniverse : CreateMessage(p)
  \/ \E w \in SyncWindows : \E gt \in RequestTimes : IntroductionRequest(w, gt)

SpecSync == Init /\ [][NextSync]_vars

\* the packets of the stored messages sent in the last step
SentPackets == {sent[i].packet : i \in {j \in DOMAIN sent : sent[j].packet # NoPacket}}

\* how often packet p was sent in the last step
TimesSent(p) == Cardinality({i \in DOMAIN sent : sent[i].packet = p})

---------------------------------------------------------------------------
(* C8 *)

\* the statement with time_high read as an upper bound in every window: every
\* message sent in answer to a request has time_low <= global_time <= time_high
SyncSoundnessLiteral ==
  last.op = "introduction-request" =>
    \A p \in SentPackets :
      /\ Row(p) \in store
      /\ last.sync.time_low <= p.global_time
      /\ p.global_time <= last.sync.time_high
      /\ (p.global_time + last.sync.offset) % last.sync.modulo = 0
      /\ p \notin last.sync.bloom_filter
      /\ Meta(p.meta).pruning => global_time - p.global_time < inactive_threshold

\* C8: every message sent in answer to an introduction request with sync window
\* (time_low, time_high, modulo, offset, bloom_filter) is a stored message with
\* time_low <= global_time, with global_time <= time_high unless time_high is 0
\* (no upper bound), with (global_time + offset) mod modulo = 0, whose packet is
\* not in the bloom filter and which, for a pruning meta, is active.
SyncSoundness ==
  last.op = "introduction-request" =>
    \A p \in SentPackets :
      /\ Row(p) \in store
      /\ last.sync.time_low <= p.global_time
      /\ last.sync.time_high = 0 \/ p.global_time <= last.sync.time_high
      /\ (p.global_time + last.sync.offset) % last.sync.modulo = 0
      /\ p \notin last.sync.bloom_filter
      /\ Meta(p.meta).pruning => global_time - p.global_time < inactive_threshold

\* a request with an upper bound was answered with an active message, while the
\* store holds an inactive message inside the range and a message above it
SyncSoundnessWitness ==
  /\ last.op = "introduction-request"
  /\ last.sync.time_high > 0
  /\ SentPackets # {}
  /\ \E r \in store :
       /\ Meta(r.meta).pruning
       /\ global_time - r.global_time >= inactive_threshold
       /\ last.sync.time_low <= r.global_time
       /\ r.global_time <= last.sync.time_high
       /\ (r.global_time + last.sync.offset) % last.sync.modulo = 0
       /\ r.packet \notin SentPackets
  /\ \E r \in store : r.global_time > last.sync.time_high

---------------------------------------------------------------------------
(* C9 *)

\* C9: for a request whose bloom filter is empty, every active stored message m
\* with time_low <= m.global_time, with m.global_time <= time_high (a time_high
\* of 0 meaning no upper bound) and with (m.global_time + offset) mod modulo = 0
\* is sent back exactly once, for every modulo in 1..9 and every offset below it.
SyncCompleteness ==
  (last.op = "introduction-request" /\ last.sync.bloom_filter = {}) =>
    \A r \in store :
      (/\ Meta(r.meta).pruning => global_time - r.global_time < inactive_threshold
       /\ last.sync.time_low <= r.global_time
       /\ last.sync.time_high = 0 \/ r.global_time <= last.sync.time_high
       /\ (r.global_time + last.sync.offset) % last.sync.modulo = 0)
      => TimesSent(r.packet) = 1

\* a request for the slice of modulo 5 without upper bound was answered with the
\* two active messages, one of them the normal message, and not with the
\* inactive message the store holds
SyncCompletenessWitness ==
  /\ last.op = "introduction-request"
  /\ last.sync.bloom_filter = {}
  /\ last.sync.time_high = 0
  /\ last.sync.modulo = 5
  /\ Cardinality(SentPackets) = 2
  /\ \E p \in SentPackets : ~Meta(p.meta).pruning
  /\ \E r \in store : r.packet \notin SentPackets

---------------------------------------------------------------------------
(* Sync order: messages of a high priority, a low priority and a DESC meta,  *)
(* their global times interleaved                                             *)

OrderMetas == << "high-priority-text", "low-priority-text", "DESC-text" >>

OrderUniverse ==
  {Msg(OrderMetas[i], "A", "", Len(OrderMetas) * j + i, 0, 0, 1, "") :
     i \in DOMAIN OrderMetas, j \in 0..(MaxPerMeta - 1)}

\* windows over the whole range with an empty bloom filter
OrderWindows == {w \in SyncWindows : w.time_low = 1 /\ w.time_high = 0 /\ w.bloom_filter = {}
                                      /\ w.modulo <= 2}

NextOrder ==
  \/ \E p \in OrderUniverse : StoreMessage(p)
  \/ \E w \in OrderWindows : IntroductionRequest(w, 1)

SpecOrder == Init /\ [][NextOrder]_vars

---------------------------------------------------------------------------
(* C10 *)

\* C10: in the answer to one sync request every message of a higher priority meta
\* is sent before any message of a lower priority meta, and the messages of one
\* meta are sent in ascending global time for an ASC meta and in descending
\* global time for a DESC meta.
ResponseOrder ==
  last.op = "introduction-request" =>
    \A i \in DOMAIN sent : \A j \in DOMAIN sent :
      (i < j /\ sent[i].packet # NoPacket /\ sent[j].packet # NoPacket) =>
        /\ Meta(sent[i].packet.meta).priority >= Meta(sent[j].packet.meta).priority
        /\ (sent[i].packet.meta = sent[j].packet.meta
              /\ Meta(sent[i].packet.meta).direction = "ASC")
             => sent[i].packet.global_time < sent[j].packet.global_time
        /\ (sent[i].packet.meta = sent[j].packet.meta
              /\ Meta(sent[i].packet.meta).direction = "DESC")
             => sent[i].packet.global_time > sent[j].packet.global_time

\* an answer that carries two messages of each of the three metas
ResponseOrderWitness ==
  /\ last.op = "introduction-request"
  /\ \A i \in DOMAIN OrderMetas :
       Cardinality({p \in SentPackets : p.meta = OrderMetas[i]}) >= 2

---------------------------------------------------------------------------
(* Undo: the members A and B each create a message and undo it more than once *)

UndoMembers == {"A", "B"}

\* the message of member m that is undone
Target(m) == Msg("full-sync-text", m, "", 1, 0, 0, 1, "")

\* the k-th undo of member m for its message
UndoOwn(m, k) ==
  Msg("dispersy-undo-own", m, "", Target(m).global_time + k, k,
      Target(m).global_time, 1, "")

UndoUniverse ==
  {Target(m) : m \in UndoMembers}
    \cup {UndoOwn(m, k) : m \in UndoMembers, k \in 1..MaxUndo}

NextUndo ==
  \/ \E p \in UndoUniverse : Receive(p)
  \/ \E k \in AllKeys(UndoUniverse) : DelayTimeout(k)

SpecUndo == Init /\ [][NextUndo]_vars

---------------------------------------------------------------------------
(* C11 *)

\* the stored undo messages of member m for its message
StoredUndoes(S, m) == {u \in {UndoOwn(m, k) : k \in 1..MaxUndo} : Row(u) \in S}

\* the undo with the lexicographically smallest packet
Lowest(us) == CHOOSE u \in us : \A v \in us : v = u \/ PacketLess(u, v)

\* the message of m is undone by the lowest of its stored undo messages, and
\* every other stored undo is itself undone by that one
UndoneByLowest(S, U, m) ==
  /\ UndoneBy(U, m, Target(m).global_time)
       = {Mark(m, Target(m).global_time, Lowest(StoredUndoes(S, m)))}
  /\ \A u \in StoredUndoes(S, m) \ {Lowest(StoredUndoes(S, m))} :
       UndoneBy(U, m, u.global_time) = {Mark(m, u.global_time, Lowest(StoredUndoes(S, m)))}
  /\ UndoneBy(U, m, Lowest(StoredUndoes(S, m)).global_time) = {}

UndoTwiceKept ==
  \A m \in UndoMembers :
    (Row(Target(m)) \in store /\ Cardinality(StoredUndoes(store, m)) >= 2)
      => UndoneByLowest(store, undone, m)

\* a step that receives a further undo u of m, in sequence, while the message and
\* an undo for it are stored, stores u and keeps the others
UndoTwiceStep ==
  \A m \in UndoMembers : \A k \in 2..MaxUndo :
    (/\ last'.op = "receive"
     /\ last'.packet = UndoOwn(m, k)
     /\ Row(Target(m)) \in store
     /\ Row(UndoOwn(m, k)) \notin store
     /\ LastSequence(store, m, "dispersy-undo-own") = k - 1)
    => /\ Row(UndoOwn(m, k)) \in store'
       /\ store \subseteq store'
       /\ UndoneByLowest(store', undone', m)

---------------------------------------------------------------------------
(* Signatures: packets of A and B, as signed and with altered bytes *)

SignedUniverse ==
  {Msg("full-sync-text", m, "", g, 0, 0, 1, "") : m \in {"A", "B"}, g \in 1..MaxGT}

\* the packet with its signature bytes overwritten
AlteredSignature(p) == [p EXCEPT !.signature = 0]

\* the packet with its public-key bytes replaced by those of key
AlteredPublicKey(p, key) == [p EXCEPT !.member = key]

\* the keys put in place of the creator's: no key at all, or another member's
OtherKeys(p) == {"I", "A", "B"} \ {p.member}

AlteredUniverse ==
  {AlteredSignature(p) : p \in SignedUniverse}
    \cup UNION {{AlteredPublicKey(p, k) : k \in OtherKeys(p)} : p \in SignedUniverse}

NextSignature == \E p \in SignedUniverse \cup AlteredUniverse : Receive(p)

SpecSignature == Init /\ [][NextSignature]_vars

---------------------------------------------------------------------------
(* C12 *)

\* the signature of every stored packet is one its creator's key produces
StoredVerified ==
  \A r \in store :
    /\ database_id(r.packet.member) > 0
    /\ r.packet.signature - 2 * database_id(r.packet.member) \in 1..2

\* a step that receives a packet with altered signature or public-key bytes
\* drops it: nothing is stored, suspended or sent
AlteredStep ==
  \A p \in AlteredUniverse :
    (last'.op = "receive" /\ last'.packet = p)
      => /\ store' = store
         /\ Row(p) \notin store'
         /\ delayed' = delayed
         /\ sent' = << >>

\* C12: every message in the store was accepted only after its signature
\* verified: a packet whose signature bytes or public-key bytes were altered is
\* dropped, is never stored, and leaves the store unchanged.
SignaturesVerified == [](StoredVerified) /\ [][AlteredStep]_vars

\* a packet with another member's public key in place of its creator's has just
\* been received while the store holds messages, and is not stored
SignaturesVerifiedWitness ==
  /\ last.op = "receive"
  /\ last.packet \in AlteredUniverse
  /\ last.packet.member = "B"
  /\ last.packet.signature = Sign("A", 1)
  /\ store # {}
  /\ ~\E r \in store : r.member = "B" /\ r.global_time = last.packet.global_time

---------------------------------------------------------------------------
(* Destroy: messages of C, the grants M -> A -> B, and hard-kills of the master *)
(* member, of B (permitted once the grants are in) and of C (never permitted)   *)

TextUniverse ==
  {Msg("full-sync-text", "C", "", g, 0, 0, 1, "") : g \in 1..MaxText}

\* the hard-kill of member m, created after every other message
DestroyCommunity(m) ==
  Msg("dispersy-destroy-community", m, "", MaxGT + 1, 0, DegreeByte("hard-kill"), 1, "")

DestroyUniverse == {DestroyCommunity(m) : m \in {"M", "B", "C"}}

NextDestroy ==
  \/ \E p \in TextUniverse \cup AuthorizeUniverse \cup DestroyUniverse : Receive(p)
  \/ \E k \in AllKeys(AuthorizeUniverse) : DelayTimeout(k)

SpecDestroy == Init /\ [][NextDestroy]_vars

---------------------------------------------------------------------------
(* C13 *)

\* member may destroy at global time gt: the master member, or a member an
\* authorize with a lower global time was folded into the timeline for
MayDestroy(member, gt) ==
  \/ member = Master
  \/ \E g \in timeline : g.member = member /\ g.global_time < gt

\* the step receives the hard-kill d, which is new to the store
DestroyStep(d) ==
  /\ last'.op = "receive"
  /\ last'.packet = d
  /\ ~\E r \in store : r.member = d.member /\ r.global_time = d.global_time

\* C13: on receipt of a hard-kill signed by a member permitted to destroy, all
\* messages except the destroy-community itself and its proof chain are removed
\* from the store; a hard-kill of a member without that permission is dropped and
\* removes no message.
HardKillRemovesAll ==
  [][ \A d \in DestroyUniverse :
        DestroyStep(d) =>
          IF MayDestroy(d.member, d.global_time)
          THEN /\ Row(d) \in store'
               /\ \A r \in store' \ {Row(d)} :
                    r \in store /\ r.meta = "dispersy-authorize"
               /\ \A r \in store :
                    (r.meta = "dispersy-authorize" /\ r.packet.target = d.member
                       /\ r.global_time < d.global_time) => r \in store'
               /\ \A r \in store' \ {Row(d)} : \A q \in store :
                    (q.meta = "dispersy-authorize" /\ q.packet.target = r.member
                       /\ q.global_time < r.global_time) => q \in store'
          ELSE /\ store' = store
               /\ delayed' = delayed
    ]_vars

\* the hard-kill of B has just been received: the messages of C left the store,
\* the grant of A to B and the grant of the master member to A are kept
HardKillRemovesAllWitness ==
  /\ last.op = "receive"
  /\ last.packet = DestroyCommunity("B")
  /\ Row(last.packet) \in store
  /\ \E r \in last.removed : r.meta = "full-sync-text"
  /\ \E r \in store : r.meta = "dispersy-authorize" /\ r.member = "A"
  /\ \E r \in store : r.meta = "dispersy-authorize" /\ r.member = Master
  /\ \A r \in store : r.meta # "full-sync-text"

---------------------------------------------------------------------------
(* Signature requests of member A to member B: allowed, modified and ignored *)

RequestTexts == {"Allow=True", "Allow=Modify", "Allow=False"}

RequestUniverse == {DoubleSignedText("A", "B", t) : t \in RequestTexts}

Identifiers == 1..MaxRequests

\* every request the node can have in its cache
Requests == [identifier : Identifiers, message : RequestUniverse]

NextRequest ==
  \/ \E i \in Identifiers, m \in RequestUniverse : CreateSignatureRequest(i, m)
  \/ \E r \in request_cache : SignatureResponse(r)
  \/ \E r \in responses : OnSignatureResponse(r)
  \/ \E r \in Requests : SignatureRequestTimeout(r)

\* a cached request times out sooner or later
SpecRequest ==
  /\ Init
  /\ [][NextRequest]_vars
  /\ \A r \in Requests : WF_vars(SignatureRequestTimeout(r))

---------------------------------------------------------------------------
(* C14 *)

\* the invocations of the handler of the request of identifier
CallsOf(identifier) == {i \in DOMAIN calls : calls[i].identifier = identifier}

\* a handler is never invoked twice, and not before its request left the cache
CalledOnce ==
  \A i \in Identifiers :
    /\ Cardinality(CallsOf(i)) <= 1
    /\ (\E r \in request_cache : r.identifier = i) => CallsOf(i) = {}

\* a response for a cached request invokes the handler with that response, the
\* timeout invokes it with None, and nothing else invokes a handler
CalledStep ==
  /\ \A r \in request_cache :
       /\ (last_request'.op = "response" /\ last_request'.identifier = r.identifier)
            => /\ Len(calls') = Len(calls) + 1
               /\ calls'[Len(calls')].identifier = r.identifier
               /\ calls'[Len(calls')].request = r.message
               /\ calls'[Len(calls')].response = last_request'.response
               /\ calls'[Len(calls')].response # None
               /\ r \notin request_cache'
       /\ (last_request'.op = "timeout" /\ last_request'.identifier = r.identifier)
            => /\ Len(calls') = Len(calls) + 1
               /\ calls'[Len(calls')].identifier = r.identifier
               /\ calls'[Len(calls')].request = r.message
               /\ calls'[Len(calls')].response = None
               /\ r \notin request_cache'
  /\ calls' # calls =>
       /\ last_request'.op \in {"response", "timeout"}
       /\ \E r \in request_cache : r.identifier = last_request'.identifier

\* C14: for each signature request the response handler is invoked exactly once:
\* with the response when a dispersy-signature-response with the matching
\* identifier arrives before the timeout, otherwise with None when the timeout
\* expires; never for both a response and the timeout of the same request.
HandlerInvokedOnce ==
  /\ [](CalledOnce)
  /\ [][CalledStep]_vars
  /\ \A i \in Identifiers :
       (\E r \in request_cache : r.identifier = i) ~> (Cardinality(CallsOf(i)) = 1)

\* one request was answered and its handler got the modified response, the other
\* timed out, and the response of the first arrived once more afterwards
HandlerInvokedOnceWitness ==
  /\ Len(calls) = 2
  /\ request_cache = {}
  /\ \E i \in DOMAIN calls : calls[i].response # None /\ calls[i].modified
  /\ \E i \in DOMAIN calls : calls[i].response = None
  /\ last_request.op = "response"
  /\ CallsOf(last_request.identifier) # {}
  /\ calls[Len(calls)].identifier # last_request.identifier

---------------------------------------------------------------------------
(* Missing identity: messages of A and B reach a node that knows neither *)

\* the dispersy-identity of member m
Identity(m) == Msg("dispersy-identity", m, "", 1, 0, 0, 1, "")

Strangers == {"A", "B"}

StrangerUniverse ==
  {Msg("full-sync-text", m, "", g, 0, 0, 1, "") : m \in Strangers, g \in 2..MaxGT}

IdentityUniverse == {Identity(m) : m \in Strangers}

\* create_nodes(2) without send_identity: only the master member is known
InitStrangers == Started({Master})

NextIdentity ==
  \/ \E p \in StrangerUniverse \cup IdentityUniverse : Receive(p)
  \/ \E k \in AllKeys(StrangerUniverse) : DelayTimeout(k)

SpecIdentity == InitStrangers /\ [][NextIdentity]_vars

---------------------------------------------------------------------------
(* C15 *)

\* the packets queued for the identity of member m
QueuedFor(Q, m) == {d.packet : d \in {e \in Q : e.key.kind = "identity" /\ e.key.member = m}}

\* a step that receives message p of a creator the node does not know: p is
\* queued and not stored, and one dispersy-missing-identity for the creator is
\* sent unless one is outstanding already
UnknownStep(p) ==
  (last'.op = "receive" /\ last'.packet = p /\ p.member \notin identities)
    => /\ store' = store
       /\ p \in QueuedFor(delayed', p.member)
       /\ identities' = identities
       /\ IF QueuedFor(delayed, p.member) = {}
          THEN /\ Len(sent') = 1
               /\ sent'[1].name = "dispersy-missing-identity"
               /\ sent'[1].member = p.member
          ELSE sent' = << >>

\* a step that receives the identity of member m: the messages queued for it
\* are processed and stored
IdentityStep(m) ==
  (last'.op = "receive" /\ last'.packet = Identity(m) /\ m \notin identities)
    => /\ m \in identities'
       /\ QueuedFor(delayed', m) = {}
       /\ \A p \in QueuedFor(delayed, m) : Row(p) \in store'

\* no message of an unknown creator is in the store
KnownCreators == \A r \in store : r.member \in identities

\* C15: a message whose creator's identity is unknown is not stored but queued;
\* a single dispersy-missing-identity is emitted for the creator, also when the
\* same message is received again while the request is outstanding; once the
\* identity message arrives, the queued message is processed and stored.
MissingIdentityRepair ==
  /\ [](KnownCreators)
  /\ [][ /\ \A p \in StrangerUniverse : UnknownStep(p)
         /\ \A m \in Strangers : IdentityStep(m) ]_vars

\* the identity of A has just arrived: two messages of A that were queued with a
\* single request sent are now stored
MissingIdentityRepairWitness ==
  /\ last.op = "receive"
  /\ last.packet = Identity("A")
  /\ Cardinality(last.resumed) = 2
  /\ \A p \in StrangerUniverse : p.member = "A" => Row(p) \in store
  /\ "B" \notin identities

---------------------------------------------------------------------------
(* Walker: batches of requests from peers with and without tunnel *)

WalkerUniverse ==
  {Candidate(k, FALSE) : k \in 1..MaxPeers}
    \cup {Candidate(MaxPeers + k, TRUE) : k \in 1..MaxPeers}

NextWalker ==
  \/ \E batch \in SUBSET WalkerUniverse : OnIntroductionRequests(batch)
  \/ \E c \in WalkerUniverse : CandidateTimeout(c)

SpecWalker == Init /\ [][NextWalker]_vars

---------------------------------------------------------------------------
(* C16 *)

\* C16: the introduction response sent to a requester never introduces the
\* requester to itself (the introduced LAN and WAN addresses differ from its
\* own), and a requester that is not tunnelled is only introduced to a candidate
\* that is not tunnelled.
NeverIntroducedToItself ==
  \A i \in introductions :
    /\ i.lan_introduction_address # i.destination.lan_address
    /\ i.wan_introduction_address # i.destination.wan_address
    /\ ~i.destination.tunnel =>
         \A c \in WalkerUniverse :
           (c.lan_address = i.lan_introduction_address
              \/ c.wan_address = i.wan_introduction_address) => ~c.tunnel

\* a mixed batch was answered: a requester without tunnel was introduced to the
\* other peer without tunnel while tunnelled peers are in the table, and a
\* tunnelled requester was introduced to somebody
NeverIntroducedToItselfWitness ==
  /\ \E c \in candidates : c.tunnel
  /\ \E i \in introductions :
       /\ ~i.destination.tunnel
       /\ i.lan_introduction_address # NoAddress
       /\ \E c \in candidates : /\ c.lan_address = i.lan_introduction_address
                                /\ c # i.destination /\ ~c.tunnel
  /\ \E i \in introductions :
       i.destination.tunnel /\ i.lan_introduction_address # NoAddress

---------------------------------------------------------------------------
(* Batch: batched-text of A and a message without batch window of B *)

BatchUniverse == {Msg("batched-text", "A", "", g, 0, 0, 1, "") : g \in 1..MaxGT}

BatchGiven == BatchUniverse \cup {Msg("full-sync-text", "B", "", 1, 0, 0, 1, "")}

\* the calls of give_messages: up to MaxGive packets, repetitions included
Calls == UNION {[1..k -> BatchGiven] : k \in 1..MaxGive}

NextBatch ==
  \/ \E ps \in Calls : GiveMessages(ps, TRUE)
  \/ OnBatchCache

SpecBatch == Init /\ [][NextBatch]_vars

---------------------------------------------------------------------------
(* C17 *)

\* the cached packets
Cached(cache) == {cache[i] : i \in DOMAIN cache}

\* giving packets stores no batched-text; the expiry of the window stores every
\* cached one, once
BatchStep ==
  /\ last'.op = "give" =>
       /\ \A p \in BatchUniverse : Row(p) \in store' <=> Row(p) \in store
       /\ Cached(batch_cache) \subseteq Cached(batch_cache')
  /\ last'.op = "batch" =>
       /\ batch_cache' = << >>
       /\ \A p \in Cached(batch_cache) :
            /\ Row(p) \in store'
            /\ Cardinality({r \in store' : r.member = p.member
                                            /\ r.global_time = p.global_time}) = 1
       /\ \A r \in store' \ store : r.packet \in Cached(batch_cache)

\* C17: messages of a meta with a batch window are not stored before the window
\* has expired, and once it has expired every distinct message that was received
\* is stored exactly once, whether delivered in one call or one by one.
BatchWindow == [][BatchStep]_vars

\* the window has just expired for the second time: the messages of the first
\* and of the second window are stored, with a message that never waited
BatchWindowWitness ==
  /\ last.op = "batch"
  /\ batch_cache = << >>
  /\ \A p \in BatchUniverse : Row(p) \in store
  /\ \E r \in store : r.meta = "full-sync-text"

---------------------------------------------------------------------------
(* StormDBManager: a caller on the reactor thread and the worker thread *)

NextStorm ==
  \/ ScheduleQuery
  \/ StormCommit
  \/ StormEnter
  \/ \E exc_type \in ExcTypes : StormExit(exc_type)
  \/ \E commit \in BOOLEAN : Close(commit)
  \/ WorkerGet
  \/ WorkerDefer
  \/ \E id \in 1..MaxQueries : WorkerRun(Query(id))
  \/ Callback

SpecStorm == Init /\ [][NextStorm]_vars

---------------------------------------------------------------------------
(* C18 *)

\* s is the beginning of t
IsPrefix(s, t) == Len(s) <= Len(t) /\ \A i \in DOMAIN s : s[i] = t[i]

\* C18: the operations scheduled on a StormDBManager are executed one at a time
\* by the single worker, in the order in which they were enqueued, and their
\* deferreds fire in that same order; no two operations use the connection at
\* the same time, also when several are scheduled before the first has run.
SingleWorkerFifo ==
  /\ Cardinality(running) <= 1
  /\ IsPrefix(executed, scheduled)
  /\ IsPrefix(fired, executed)
  /\ \A q \in running : Len(executed) < Len(scheduled) /\ q.id = scheduled[Len(executed) + 1]
  /\ \A i \in DOMAIN queue :
       queue[i].kind = "query" => \A j \in DOMAIN executed : executed[j] < queue[i].id

\* three queries were scheduled before the first had run: the worker is
\* executing the second, the first is executed and its deferred has fired, the
\* third waits in the queue
SingleWorkerFifoWitness ==
  /\ scheduled = << 1, 2, 3 >>
  /\ running = {Query(2)}
  /\ queue = << Query(3) >>
  /\ executed = << 1 >>
  /\ fired = << 1 >>

---------------------------------------------------------------------------
(* C19 *)

\* the worker takes a commit that was requested inside a with-block
InsideCommitStep ==
  /\ storm_last'.op = "get"
  /\ storm_last'.item.kind = "commit"
  /\ storm_last'.item.inside

\* the caller leaves its only with-block without an exception
NormalExitStep ==
  /\ storm_last'.op = "exit"
  /\ storm_last'.exc_type = "None"
  /\ Len(scopes) = 1

\* C19: while a no-commit scope is active a call to commit performs no database
\* commit and is only counted; at normal exit of the scope exactly one database
\* commit is performed if at least one commit was requested inside the scope,
\* and none if no commit was requested.
CommitsMergedAtExit ==
  [][ /\ InsideCommitStep => connection_commits' = connection_commits
      /\ NormalExitStep =>
           Len(queue') - Len(queue) = IF scopes[1] >= 1 THEN 1 ELSE 0
    ]_vars

---------------------------------------------------------------------------
(* Database: a caller that nests with-blocks *)

NextDatabase ==
  \/ DatabaseCommit
  \/ DatabaseEnter
  \/ \E exc_type \in ExcTypes : DatabaseExit(exc_type)

SpecDatabase == Init /\ [][NextDatabase]_vars

---------------------------------------------------------------------------
(* C20 *)

\* the caller leaves a with-block that is inside another one
InnerExitStep == db_last'.op = "exit" /\ Len(db_scopes) > 1

\* C20: nested scopes are counted and only the outermost commits: leaving an
\* inner scope performs no commit and leaves commits disabled for the rest of
\* the outer scope; the single merged commit is performed only when the
\* outermost scope is left.
NestedScopesCounted ==
  [][ /\ InnerExitStep => (db_commits' = db_commits /\ db_pending_commits' > 0)
      /\ db_commits' # db_commits => db_scopes' = << >>
    ]_vars

---------------------------------------------------------------------------
(* C21 *)

\* the caller leaves its only with-block with IgnoreCommits
IgnoreCommitsStep ==
  /\ storm_last'.op = "exit"
  /\ storm_last'.exc_type = "IgnoreCommits"
  /\ Len(scopes) = 1

\* the worker takes a commit that was requested in a with-block left with exc_type
LeftCommitStep(exc_type) ==
  /\ storm_last'.op = "get"
  /\ storm_last'.item.kind = "commit"
  /\ storm_last'.item.left = exc_type

\* C21: if the body of a no-commit scope raises IgnoreCommits, the exception is
\* swallowed at scope exit, none of the commits requested inside the scope is
\* performed, neither at exit nor later as a consequence of those requests, and
\* commits are enabled again (pending_commits = 0).
IgnoreCommitsDiscards ==
  [][ /\ IgnoreCommitsStep =>
           /\ storm_last'.returned
           /\ pending_commits' = 0
           /\ Len(queue') = Len(queue)
           /\ connection_commits' = connection_commits
      /\ LeftCommitStep("IgnoreCommits") => connection_commits' = connection_commits
    ]_vars

---------------------------------------------------------------------------
(* C22 *)

\* the caller leaves its only with-block with an exception other than IgnoreCommits
ExceptionStep ==
  /\ storm_last'.op = "exit"
  /\ storm_last'.exc_type = "Exception"
  /\ Len(scopes) = 1

\* C22: if the body of a no-commit scope raises any exception other than
\* IgnoreCommits, the exception propagates to the caller of the scope, the
\* commits requested inside the scope are dropped (no commit is performed for
\* them), and pending_commits is back to 0 after the exit.
ExceptionPropagatesAndDrops ==
  [][ /\ ExceptionStep =>
           /\ ~storm_last'.returned
           /\ pending_commits' = 0
           /\ Len(queue') = Len(queue)
           /\ connection_commits' = connection_commits
      /\ LeftCommitStep("Exception") => connection_commits' = connection_commits
    ]_vars

---------------------------------------------------------------------------
(* Opening a DispersyDatabase on files of every version *)

\* the versions of the files: none, too old, upgradable, latest, too new
FileVersions == {0, 1, 15} \cup (LowestUpgradable .. LATEST_VERSION + 1)

\* the sync table of a file: empty or one row (the sequence column exists from
\* version 20 on)
FileRows(version) == {{}, {SyncRow(1, 1, 1, IF version < 20 THEN Null ELSE 1)}}

NextOpen ==
  \/ \E version \in FileVersions, old_sync \in BOOLEAN :
       \E rows \in FileRows(version) :
         /\ old_sync => version \in LowestUpgradable .. 19
         /\ CopyFile(version, rows, old_sync)
  \/ CheckDatabase
  \/ \E target \in 17 .. LATEST_VERSION : Upgrade(target)
  \/ OpenReturns
  \/ \E member \in 1 .. 2, sequence \in {Null, 1, 2} : InsertSync(member, 1, sequence)
  \/ Reopen

SpecOpen == Init /\ [][NextOpen]_vars

---------------------------------------------------------------------------
(* C23 *)

\* the stored version is greater than the latest known or non-zero and lower
\* than 16
Unsupported(version) ==
  version > 21 \/ (version # 0 /\ version < 16)

\* C23: opening a database whose stored database_version is greater than the
\* latest known version (21), or is non-zero and lower than 16, fails with a
\* RuntimeError before any schema or upgrade statement is executed, so the
\* on-disk schema and stored version are left unchanged.
UnsupportedVersionFails ==
  /\ [](/\ opening.state = "failed" =>
             /\ Unsupported(database_file.option)
             /\ statements = << >>
             /\ opening.version = 0
        /\ opening.state \in {"upgrade", "return", "opened"} =>
             ~Unsupported(opening.database_version))
  /\ [][(opening.state = "file" /\ Unsupported(database_file.option)) =>
          /\ opening'.state = "failed"
          /\ database_file' = database_file
          /\ statements' = statements]_vars

\* a file of version 22 and one of version 15 were refused
UnsupportedVersionFailsWitness ==
  /\ opening.state = "failed"
  /\ opening.database_version \in {15, 22}
  /\ database_file.option = opening.database_version
  /\ database_file.sync # {}

---------------------------------------------------------------------------
(* C24 *)

\* the versions that can be opened
SupportedVersions == {0} \cup (16 .. 21)

\* the scripts an open of a file of version v has to run, in order
ExpectedStatements(v) ==
  IF v = 0 THEN << [script |-> "schema", version |-> 21] >>
  ELSE [i \in 1 .. (21 - v) |-> [script |-> "upgrade", version |-> v + i]]

\* open() is between reading the version and returning
Opening == opening.state \in {"file", "upgrade", "return"}

\* C24: opening a database with stored version v in {0, 16, ..., 21} succeeds
\* and leaves version = 21: for v = 0 the full schema is created; for
\* 16 <= v < 21 exactly the upgrade steps v->v+1, ..., 20->21 are applied, in
\* increasing order and each once, each writing its own target version to the
\* option table, so the stored version never decreases and ends at 21; for
\* v = 21 nothing is changed.
SupportedVersionsUpgrade ==
  /\ [](/\ opening.state = "failed" => opening.database_version \notin SupportedVersions
        /\ opening.state = "opened" =>
             /\ opening.database_version \in SupportedVersions
             /\ opening.version = 21
             /\ database_file.option = 21
             /\ statements = ExpectedStatements(opening.database_version)
        /\ opening.state \in {"upgrade", "return"} =>
             IsPrefix(statements, ExpectedStatements(opening.database_version))
        /\ (Opening /\ statements # << >>) =>
             database_file.option = statements[Len(statements)].version
        /\ (opening.state \in {"return", "opened"} /\ opening.database_version = 0) =>
             /\ database_file.sync_unique = {"community", "member", "global_time"}
             /\ database_file.member = {"id", "mid", "public_key", "private_key"})
  /\ [][Opening =>
          /\ database_file'.option >= database_file.option
          /\ database_file.option = 21 => database_file' = database_file]_vars

\* a file of version 16 with a row in sync was opened: five upgrades ran
SupportedVersionsUpgradeWitness ==
  /\ opening.state = "opened"
  /\ opening.database_version = 16
  /\ Len(statements) = 5
  /\ statements[1].version = 17
  /\ statements[5].version = 21
  /\ database_file.option = 21
  /\ database_file.sync # {}

---------------------------------------------------------------------------
(* C25 *)

\* the step inserts a row while sync holds a row with the same community,
\* member and global_time
SecondRowStep ==
  /\ opening'.op = "insert"
  /\ \E r \in database_file.sync :
       /\ r.community = opening'.row.community
       /\ r.member = opening'.row.member
       /\ r.global_time = opening'.row.global_time

\* C25: every successfully opened database, whether freshly created at version
\* 21 or migrated forward from version 16-20, ends with the sync-table
\* uniqueness constraint of the mandatory schema, UNIQUE(community, member,
\* global_time): a second row with the same (community, member, global_time) is
\* rejected whatever its sequence value.
SyncUniqueAfterOpen ==
  /\ [](opening.state = "opened" =>
          database_file.sync_unique = {"community", "member", "global_time"})
  /\ [][SecondRowStep => database_file'.sync = database_file.sync]_vars

---------------------------------------------------------------------------
(* Bootstrap: start, the periodic task, lookups that fail and succeed, reset *)

\* the lookups there can be
Lookups == {[address |-> address, owner |-> owner] :
              address \in Addresses, owner \in {"start", "loop"}}

NextBootstrap ==
  \/ BootstrapStart
  \/ LoopingCall
  \/ \E l \in Lookups : AddCandidate(l)
  \/ \E l \in Lookups : NoCandidate(l)
  \/ BootstrapReset

\* the interval passes again and again, every lookup ends, and a lookup fails
\* at most MaxFailures times
SpecBootstrap ==
  /\ Init
  /\ [][NextBootstrap]_vars
  /\ WF_vars(LoopingCall)
  /\ \A l \in Lookups : WF_vars(AddCandidate(l) \/ NoCandidate(l))

---------------------------------------------------------------------------
(* C26 *)

\* every address has a candidate
AllResolved == \A address \in Addresses : bootstrap_candidates[address]

\* start() or the periodic task has just run
AttemptStep == bootstrap_last'.op \in {"start", "loop"}

\* after the step every address is resolved or being looked up
Attempted ==
  \A address \in Addresses :
    \/ bootstrap_candidates'[address]
    \/ \E l \in lookups' : l.address = address

BootstrapStep ==
  /\ (AttemptStep /\ ~AllResolved) => (Attempted /\ task')
  /\ (AttemptStep /\ AllResolved) =>
       (~task' /\ \A l \in lookups' : \E k \in lookups : k.address = l.address)
  /\ (task /\ ~task') => AllResolved
  /\ ~task => (bootstrap_last'.op # "loop")
  /\ (AllResolved /\ bootstrap_last'.op # "reset") =>
       \A address \in Addresses : bootstrap_candidates'[address]

\* C26: after Bootstrap.start(interval), resolution of the unresolved addresses
\* is attempted immediately and again at every interval for as long as some
\* address is unresolved; once all addresses are resolved the periodic task is
\* cancelled and no further lookup is started; if every lookup eventually
\* succeeds, all_resolved eventually becomes and stays True until reset() is
\* called.
BootstrapResolves ==
  /\ [][BootstrapStep]_vars
  /\ task ~> AllResolved
  /\ (task /\ AllResolved) ~> ~task

\* all addresses are resolved after a lookup that had failed was repeated by the
\* periodic task, and the task is cancelled
BootstrapResolvesWitness ==
  /\ AllResolved
  /\ ~task
  /\ bootstrap_last.op = "loop"
  /\ lookups = {}
  /\ \E address \in Addresses : failures[address] = MaxFailures
  /\ resets = 0

---------------------------------------------------------------------------
(* C27 *)

\* p and q are the same message signed twice: they differ in the signature only
Identical(p, q) ==
  /\ p.meta = q.meta /\ p.member = q.member /\ p.cosigner = q.cosigner
  /\ p.global_time = q.global_time /\ p.sequence = q.sequence
  /\ p.payload = q.payload /\ p.target = q.target
  /\ p.signature # q.signature

\* the rows of S with the member and global time of p
SameKey(S, p) == {r \in S : r.member = p.member /\ r.global_time = p.global_time}

\* the node is given the second of two identical messages: of the two packets,
\* which differ in their last bytes only, the one with the higher signature is
\* the one that is stored afterwards
IdenticalStep ==
  \A r \in store :
    (/\ last'.op = "receive"
     /\ last'.packet.meta = "full-sync-text"
     /\ Identical(r.packet, last'.packet)) =>
      /\ Cardinality(SameKey(store', r)) = 1
      /\ \A k \in SameKey(store', r) :
           k.packet = IF r.packet.signature < last'.packet.signature
                      THEN last'.packet ELSE r.packet
      /\ store' \ SameKey(store', r) = store \ SameKey(store, r)

\* C27: when a node receives two different packets with the same community,
\* member and global_time (identical payload, different signature), it ends up
\* storing exactly one of them: the byte-wise lowest packet is dropped and the
\* highest one is stored, in whichever order the two packets arrive.
DropIdenticalPayload == [][IdenticalStep]_vars

\* the lowest packet arrived first and was stored; the highest has just arrived
\* and has taken its place
DropIdenticalPayloadWitness ==
  /\ last.op = "receive"
  /\ last.packet.meta = "full-sync-text"
  /\ Row(last.packet) \in store
  /\ \E r \in last.removed :
       Identical(r.packet, last.packet) /\ r.packet.signature < last.packet.signature

---------------------------------------------------------------------------
(* A node that holds sequence messages and is asked for missing ones *)

\* sequence-text #i of the node itself, created at global time i + 1
HeldUniverse == {Msg("sequence-text", "M", "", i + 1, i, 0, 1, "") : i \in 1..MaxStored}

\* the ranges a request can name: they overlap, and one reaches beyond the
\* highest stored number
AskedRanges == {<< 1, 2 >>, << 2, 3 >>, << MaxStored, MaxAsked >>}

\* a dispersy-missing-sequence of candidate for the range
Ask(candidate, range) ==
  Incoming(candidate, MissingSequence("M", "sequence-text", range[1], range[2]))

\* the batches: up to MaxAsks requests of the requesters, in any order
AskedBatches ==
  UNION {[1..n -> {Ask(c, range) : c \in Requesters, range \in AskedRanges}] :
           n \in 1..MaxAsks}

NextRepair ==
  \/ \E p \in HeldUniverse :
       /\ p.sequence = LastSequence(store, p.member, p.meta) + 1
       /\ CreateMessage(p)
  \/ \E batch \in AskedBatches : OnMissingSequence(batch, "M", "sequence-text")

SpecRepair == Init /\ [][NextRepair]_vars

---------------------------------------------------------------------------
(* C28 *)

\* the sequence numbers of the packets in the sequence t
Numbers(t) == {t[i].sequence : i \in DOMAIN t}

\* the sequence numbers that candidate asked for in the last batch
AskedIn(batch, candidate) ==
  {n \in 1..MaxAsked : \E i \in DOMAIN batch :
     /\ batch[i].candidate = candidate
     /\ batch[i].message.low <= n
     /\ n <= batch[i].message.high}

\* C28: a node holding sequence messages of a member that receives from a
\* requester one or more dispersy-missing-sequence requests (ranges possibly
\* overlapping, repeated, given in any order, or reaching beyond the highest
\* stored number) sends back to that requester each stored message whose
\* sequence number lies in the union of the requested ranges exactly once, in
\* ascending sequence order, and nothing for numbers it does not hold; several
\* requesters are each answered in this way independently.
MissingSequenceAnswered ==
  \A candidate \in Requesters :
    /\ \A i \in DOMAIN replies[candidate] :
         /\ Row(replies[candidate][i]) \in store
         /\ replies[candidate][i].member = "M"
         /\ replies[candidate][i].meta = "sequence-text"
    /\ \A i, j \in DOMAIN replies[candidate] :
         i < j => replies[candidate][i].sequence < replies[candidate][j].sequence
    /\ last.op = "missing-sequence" =>
         Numbers(replies[candidate]) =
           {r.sequence : r \in store} \cap AskedIn(missing_requests, candidate)

\* node1 asked for 4-5, 2-3 and 1-2 while the node holds #1..#4, node2 for
\* nothing: node1 gets #1, #2, #3, #4 once each and in that order, node2 nothing
MissingSequenceAnsweredWitness ==
  /\ last.op = "missing-sequence"
  /\ missing_requests = << Ask("node1", << 4, 5 >>), Ask("node1", << 2, 3 >>),
                           Ask("node1", << 1, 2 >>) >>
  /\ Len(replies["node1"]) = 4
  /\ \A i \in 1..4 : replies["node1"][i].sequence = i
  /\ replies["node2"] = << >>

---------------------------------------------------------------------------
(* C29 *)

\* the packets suspended in Q until the message of m at global time gt arrives
WaitingFor(Q, m, gt) ==
  {d.packet : d \in {x \in Q : x.key.kind = "message" /\ x.key.member = m /\ x.key.n = gt}}

\* the node is given the k-th undo of m, next in sequence, and has not stored
\* the message it names
UndoUnknownStep(m, k) ==
  /\ last'.op = "receive"
  /\ last'.packet = UndoOwn(m, k)
  /\ LastSequence(store, m, "dispersy-undo-own") = k - 1
  /\ ~\E r \in store : r.member = m /\ r.global_time = UndoOwn(m, k).payload

\* the node is given the message of m while undo messages wait for it
UndoTargetStep(m) ==
  /\ last'.op = "receive"
  /\ last'.packet = Target(m)
  /\ ~\E r \in store : r.member = m /\ r.global_time = Target(m).global_time
  /\ WaitingFor(delayed, m, Target(m).global_time) # {}

MissingMessageStep ==
  \A m \in UndoMembers :
    /\ \A k \in 1..MaxUndo :
         UndoUnknownStep(m, k) =>
           /\ store' = store
           /\ undone' = undone
           /\ UndoOwn(m, k) \in WaitingFor(delayed', m, UndoOwn(m, k).payload)
           /\ IF WaitingFor(delayed, m, UndoOwn(m, k).payload) # {} THEN sent' = << >>
              ELSE /\ Len(sent') = 1
                   /\ sent'[1].name = "dispersy-missing-message"
                   /\ sent'[1].member = m
                   /\ sent'[1].low = UndoOwn(m, k).payload
                   /\ sent'[1].high = UndoOwn(m, k).payload
    /\ UndoTargetStep(m) =>
         /\ Row(Target(m)) \in store'
         /\ \A u \in WaitingFor(delayed, m, Target(m).global_time) :
              /\ Row(u) \in store'
              /\ u \in last'.resumed
         /\ \E x \in undone' :
              /\ x.member = m
              /\ x.global_time = Target(m).global_time
              /\ Row(x.by) \in store'
         /\ WaitingFor(delayed', m, Target(m).global_time) = {}

\* C29: when a node receives an undo message whose target (member, global_time)
\* it has not stored, it does not apply the undo but emits
\* dispersy-missing-message for the target's member and global_time; after the
\* target message is delivered, the target is stored and marked undone and the
\* undo message is stored.
UndoWaitsForTarget == [][MissingMessageStep]_vars

\* the undo of A arrived before A's message and waited for it; the message has
\* just been delivered: it is stored and undone by the undo, which is stored too
UndoWaitsForTargetWitness ==
  /\ last.op = "receive"
  /\ last.packet = Target("A")
  /\ UndoOwn("A", 1) \in last.resumed
  /\ Row(Target("A")) \in store
  /\ Row(UndoOwn("A", 1)) \in store
  /\ Mark("A", Target("A").global_time, UndoOwn("A", 1)) \in undone

---------------------------------------------------------------------------
(* Revoke and dynamic settings: messages accepted earlier are evaluated again *)

\* the meta whose undo permission is granted and revoked, and the dynamic meta
UndoableMeta == "full-sync-text"
DynamicMeta == "dynamic-resolution-text"

\* meta.resolution.policies[0] and [1] as they travel in a packet
PolicyByte(policy) == IF policy = "linear" THEN 1 ELSE 0
PolicyOf(byte) == IF byte = 1 THEN "linear" ELSE "public"

\* what an accepted authorize, revoke or dynamic-settings folds into the timeline
Entry(p) ==
  CASE p.meta = "dispersy-authorize" ->
         [kind |-> "authorize", member |-> p.target, meta |-> UndoableMeta,
          global_time |-> p.global_time, policy |-> ""]
    [] p.meta = "dispersy-revoke" ->
         [kind |-> "revoke", member |-> p.target, meta |-> UndoableMeta,
          global_time |-> p.global_time, policy |-> ""]
    [] OTHER ->
         [kind |-> "policy", member |-> "", meta |-> DynamicMeta,
          global_time |-> p.global_time, policy |-> PolicyOf(p.payload)]

\* the entry of E that was created last
Latest(E) == CHOOSE e \in E : \A f \in E : f.global_time <= e.global_time

\* check(member, meta, undo, global_time): the latest grant or revoke of the
\* triplet before gt decides; the master member may do anything
AllowedUndo(T, member, gt) ==
  \/ member = Master
  \/ LET E == {e \in T : /\ e.kind \in {"authorize", "revoke"}
                         /\ e.member = member
                         /\ e.meta = UndoableMeta
                         /\ e.global_time < gt}
     IN E # {} /\ Latest(E).kind = "authorize"

\* a policy that is in effect at the global time of its dynamic-settings message
ResolutionPolicyAt(T, meta, gt) ==
  LET E == {e \in T : e.kind = "policy" /\ e.meta = meta /\ e.global_time <= gt}
  IN IF E = {} THEN "public" ELSE Latest(E).policy

\* get_resolution_policy(meta, global_time): the default policy is public; a
\* dynamic-settings message takes effect at its global_time + 1
ResolutionPolicy(T, meta, gt) ==
  LET E == {e \in T : e.kind = "policy" /\ e.meta = meta /\ e.global_time < gt}
  IN IF E = {} THEN "public" ELSE Latest(E).policy

\* timeline.check(message): a dynamic message has to carry the policy in effect
\* at its global time and, under the linear policy, needs a permission that
\* only the master member has here; an undo-other needs the undo permission
TimelineCheck(T, p) ==
  CASE p.meta = DynamicMeta ->
         /\ ResolutionPolicy(T, p.meta, p.global_time) = PolicyOf(p.payload)
         /\ PolicyOf(p.payload) = "public" \/ p.member = Master
    [] p.meta = "dispersy-undo-other" -> AllowedUndo(T, p.member, p.global_time)
    [] OTHER -> TRUE

\* a timeline change that leaves the messages accepted earlier as they are
ReevaluateNever(S, U, T, meta, low, by) == U

\* the marks after the messages of meta above global time low were evaluated
\* again under timeline T: a message that is not permitted is marked undone (by
\* the message that changed the timeline), a permitted one keeps the marks of
\* the undo messages that are permitted themselves
Reevaluate(S, U, T, meta, low, by) ==
  LET rows == {r \in S : r.meta = meta /\ r.global_time > low}
      MarksOf(r) == UndoneBy(U, r.member, r.global_time)
      Stays(x) == /\ x.by.meta \in {"dispersy-undo-own", "dispersy-undo-other"}
                  /\ TimelineCheck(T, x.by)
  IN (U \ UNION {MarksOf(r) : r \in rows})
       \cup UNION {IF TimelineCheck(T, r.packet)
                   THEN {x \in MarksOf(r) : Stays(x)}
                   ELSE IF MarksOf(r) = {}
                        THEN {Mark(r.member, r.global_time, by)}
                        ELSE MarksOf(r) : r \in rows}

\* the meta whose messages a revoke or dynamic-settings message affects
AffectedMeta(p) == IF p.meta = "dispersy-revoke" THEN UndoableMeta ELSE DynamicMeta

\* node.give_message(message, source): a new message that the timeline permits
\* is stored; an authorize, revoke or dynamic-settings is folded into the
\* timeline; an undo-other marks its stored target
GiveMessage(p) ==
  /\ Row(p) \notin store
  /\ p.meta = "dispersy-undo-other" =>
       \E r \in store : r.member = p.target /\ r.global_time = p.payload
  /\ IF TimelineCheck(timeline, p)
     THEN /\ store' = store \cup {Row(p)}
          /\ global_time' = IF p.global_time > global_time THEN p.global_time
                            ELSE global_time
          /\ timeline' = IF p.meta \in {"dispersy-authorize", "dispersy-revoke",
                                        "dispersy-dynamic-settings"}
                         THEN timeline \cup {Entry(p)} ELSE timeline
          /\ undone' =
               CASE p.meta \in {"dispersy-revoke", "dispersy-dynamic-settings"} ->
                      Reevaluate(store, undone, timeline \cup {Entry(p)}, AffectedMeta(p),
                                 p.global_time, p)
                 [] p.meta = "dispersy-undo-other" ->
                      IF UndoneBy(undone, p.target, p.payload) = {}
                      THEN undone \cup {Mark(p.target, p.payload, p)} ELSE undone
                 [] OTHER -> undone
          /\ last' = [op |-> "give", packet |-> p, resumed |-> {}, removed |-> {},
                      sync |-> NoSync]
     ELSE /\ last' = [op |-> "drop", packet |-> p, resumed |-> {}, removed |-> {},
                      sync |-> NoSync]
          /\ UNCHANGED << store, global_time, timeline, undone >>
  /\ UNCHANGED << double_signed_sync, delayed, outstanding, sent, history, identities,
                  otherVars >>

---------------------------------------------------------------------------
(* Specification: the master member grants and revokes the undo permission of A
   and changes the policy of the dynamic meta, around messages of A and B *)

\* MM grants A the permission to undo, and revokes it before or after A's undo
GrantUndo == Msg("dispersy-authorize", Master, "", 1, 0, 0, 1, "A")
RevokeUndo(gt) == Msg("dispersy-revoke", Master, "", gt, 0, 0, 1, "A")

\* the message of B and the undo-other of A for it
Undoable == Msg(UndoableMeta, "B", "", 5, 0, 0, 1, "")
UndoOther == Msg("dispersy-undo-other", "A", "", 6, 1, Undoable.global_time, 1, "B")

\* MM changes the policy of the dynamic meta to linear and back to public
PolicyLinear == Msg("dispersy-dynamic-settings", Master, "", 2, 0, PolicyByte("linear"), 1, "")
PolicyPublic == Msg("dispersy-dynamic-settings", Master, "", 4, 0, PolicyByte("public"), 1, "")

\* a message of A under the dynamic meta, carrying a policy
DynamicText(gt, policy) == Msg(DynamicMeta, "A", "", gt, 0, PolicyByte(policy), 1, "")

TimerangeUniverse ==
  {GrantUndo, RevokeUndo(2), RevokeUndo(7), Undoable, UndoOther, PolicyLinear, PolicyPublic}
    \cup {DynamicText(gt, policy) : gt \in {4, 5}, policy \in {"public", "linear"}}

NextTimerange == \E p \in TimerangeUniverse : GiveMessage(p)

SpecTimerange == Init /\ [][NextTimerange]_vars

---------------------------------------------------------------------------
(* C30 *)

\* the messages stored in S that a revoke or dynamic-settings p makes the node
\* evaluate again: those of the affected meta accepted with a higher global time
Later(S, p) ==
  {r \in S : r.global_time > p.global_time
             /\ r.meta = (IF p.meta = "dispersy-revoke" THEN "full-sync-text"
                          ELSE "dynamic-resolution-text")}

\* the node accepts a revoke or a dynamic-settings message
TimelineChangeStep ==
  /\ last'.op = "give"
  /\ last'.packet.meta \in {"dispersy-revoke", "dispersy-dynamic-settings"}

\* the policy of the dynamic meta in force at global time gt under timeline T
InForce(T, gt) ==
  LET E == {e \in T : e.kind = "policy" /\ e.global_time < gt}
  IN IF \E e \in E : \A f \in E : f.global_time <= e.global_time /\ e.policy = "linear"
     THEN "linear" ELSE "public"

\* member may undo messages at global time gt under timeline T
MayUndo(T, member, gt) ==
  \E e \in T : /\ e.kind = "authorize" /\ e.member = member /\ e.global_time < gt
               /\ \A f \in T : f.kind = "revoke" /\ f.member = member /\ f.global_time < gt
                                 => f.global_time < e.global_time

ReevaluatedStep ==
  TimelineChangeStep =>
    \A r \in Later(store, last'.packet) :
      /\ r.meta = "dynamic-resolution-text" =>
           IF InForce(timeline', r.global_time) = PolicyOf(r.packet.payload)
              /\ PolicyOf(r.packet.payload) = "public"
           THEN UndoneBy(undone', r.member, r.global_time) = {}
           ELSE UndoneBy(undone', r.member, r.global_time) # {}
      /\ r.meta = "full-sync-text" =>
           \A x \in UndoneBy(undone, r.member, r.global_time) :
             IF MayUndo(timeline', x.by.member, x.by.global_time)
             THEN x \in undone'
             ELSE UndoneBy(undone', r.member, r.global_time) = {}

\* C30: when a node accepts a revoke or dynamic-settings message whose
\* global_time is lower than that of messages it accepted earlier, those
\* messages are re-evaluated against the changed timeline: a message that is no
\* longer permitted is marked undone and one that is permitted again is restored
\* to undone = 0; in particular, revoking a member's undo permission at a global
\* time before that member's undo-other restores the undone target.
TimelineChangeReevaluates == [][ReevaluatedStep]_vars

\* B's message was undone by A's undo-other; the revoke of A's undo permission,
\* created before the undo, has just been accepted and the message is restored,
\* while a dynamic message undone by the linear policy has been restored by the
\* return to the public policy
TimelineChangeReevaluatesWitness ==
  /\ last.op = "give"
  /\ last.packet = RevokeUndo(2)
  /\ Row(Undoable) \in store
  /\ Row(UndoOther) \in store
  /\ UndoneBy(undone, "B", Undoable.global_time) = {}
  /\ Row(PolicyLinear) \in store
  /\ Row(PolicyPublic) \in store
  /\ Row(DynamicText(5, "public")) \in store
  /\ Row(DynamicText(4, "public")) \in store
  /\ UndoneBy(undone, "A", 5) = {}
  /\ UndoneBy(undone, "A", 4) # {}

---------------------------------------------------------------------------
(* C31 *)

\* get_resolution_policy(meta, global_time) -> (policy, proof): the proof is the
\* accepted dynamic-settings message that set the policy
get_resolution_policy(T, S, meta, gt) ==
  LET E == {e \in T : e.kind = "policy" /\ e.meta = meta /\ e.global_time < gt}
  IN [policy |-> ResolutionPolicy(T, meta, gt),
      proof |-> IF E = {} THEN {}
                ELSE {r.packet : r \in {q \in S : /\ q.meta = "dispersy-dynamic-settings"
                                                  /\ q.global_time = Latest(E).global_time}}]

\* the dynamic-settings messages accepted so far that were created before gt
SettingsBefore(gt) ==
  {r \in store : r.meta = "dispersy-dynamic-settings" /\ r.global_time < gt}

\* C31: for a dynamic-resolution meta, get_resolution_policy(meta, g) returns
\* the default (first) policy with an empty proof when no dynamic-settings
\* message with global_time < g has been accepted, and otherwise the policy set
\* by the accepted dynamic-settings message with the greatest global_time < g,
\* with that message as proof: a change made at global time t is in effect from
\* t + 1 on, and the result does not depend on the order in which the settings
\* messages were received.
PolicyInEffect ==
  \A g \in 1..6 :
    IF SettingsBefore(g) = {}
    THEN /\ get_resolution_policy(timeline, store, "dynamic-resolution-text", g).policy
              = "public"
         /\ get_resolution_policy(timeline, store, "dynamic-resolution-text", g).proof = {}
    ELSE \E r \in SettingsBefore(g) :
           /\ \A q \in SettingsBefore(g) : q.global_time <= r.global_time
           /\ get_resolution_policy(timeline, store, "dynamic-resolution-text", g).policy
                = (IF r.packet.payload = 1 THEN "linear" ELSE "public")
           /\ get_resolution_policy(timeline, store, "dynamic-resolution-text", g).proof
                = {r.packet}

\* the return to the public policy (4) was accepted before the change to linear
\* (2), which has just been accepted: linear is in effect from 3 to 4 and public
\* from 5 on
PolicyInEffectWitness ==
  /\ last.op = "give"
  /\ last.packet = PolicyLinear
  /\ Row(PolicyPublic) \in store
  /\ get_resolution_policy(timeline, store, DynamicMeta, 2).proof = {}
  /\ get_resolution_policy(timeline, store, DynamicMeta, 3).policy = "linear"
  /\ get_resolution_policy(timeline, store, DynamicMeta, 4).proof = {PolicyLinear}
  /\ get_resolution_policy(timeline, store, DynamicMeta, 5).proof = {PolicyPublic}

---------------------------------------------------------------------------
(* Specification: last-1 histories with one signer and with two signers *)

EchoUniverse == Last1Universe \cup DoubleUniverse

NextEcho == \E p \in EchoUniverse : Receive(p)

SpecEcho == Init /\ [][NextEcho]_vars

---------------------------------------------------------------------------
(* C32 *)

\* the stored messages that hold the slot of the key of p: same meta, same
\* signers in any order
Newest(S, p) ==
  {r \in S : /\ r.meta = p.meta
             /\ {r.packet.member, r.packet.cosigner} = {p.member, p.cosigner}}

\* the node is given p, older than what it stores for the key of p, and stores
\* no message of that member and global time (p would be a duplicate)
OlderStep(p) ==
  /\ last'.op = "receive"
  /\ last'.packet = p
  /\ ~\E r \in store : r.member = p.member /\ r.global_time = p.global_time
  /\ Newest(store, p) # {}
  /\ \A r \in Newest(store, p) : r.global_time > p.global_time

DropEchoStep ==
  \A p \in EchoUniverse :
    OlderStep(p) =>
      /\ store' = store
      /\ double_signed_sync' = double_signed_sync
      /\ Len(sent') = 1
      /\ sent'[1].name = p.meta
      /\ sent'[1].packet \in {r.packet : r \in Newest(store, p)}

---------------------------------------------------------------------------
(* DispersyDatabase.check_community_database *)

\* a row of sync as the check reads it: what convert_packet_to_message makes of
\* the packet (its sequence number, or no message at all), the sequence column
\* and the undone column (0, or the id of the undoing row)
CommunityRow(id, member, meta, time, converts, number, by) ==
  [id |-> id, member |-> member, meta |-> meta, global_time |-> time,
   converts |-> converts, sequence_number |-> number, sequence |-> Null,
   undone |-> by]

\* SELECT id, member, packet FROM sync WHERE meta_message = ? ORDER BY member,
\* global_time, grouped by member: the rows of one member
Group(T, meta, member) == {r \in T : r.meta = meta /\ r.member = member}

\* the first row of a group in global_time order
Earliest(G) == CHOOSE r \in G : \A q \in G : r.global_time <= q.global_time

RECURSIVE ScanKeepAll(_, _, _)
\* a scan that finds every message that converts OK
ScanKeepAll(G, last_global_time, last_sequence_number) ==
  IF G = {} THEN {}
  ELSE LET r == Earliest(G)
       IN IF r.converts
          THEN {r.id} \cup ScanKeepAll(G \ {r}, r.global_time, r.sequence_number)
          ELSE ScanKeepAll(G \ {r}, last_global_time, last_sequence_number)

RECURSIVE Scan(_, _, _)
\* the loop over the rows of one member: the ids of the messages that are OK
Scan(G, last_global_time, last_sequence_number) ==
  IF G = {} THEN {}
  ELSE LET r == Earliest(G)
       IN IF /\ r.converts
             /\ last_sequence_number + 1 = r.sequence_number
             /\ last_global_time < r.global_time
          THEN {r.id} \cup Scan(G \ {r}, r.global_time, last_sequence_number + 1)
          ELSE Scan(G \ {r}, last_global_time, last_sequence_number)

\* sequence_updates: the ids of all rows found OK
SequenceUpdates(T) ==
  UNION {Scan(Group(T, r.meta, r.member), 0, 0) : r \in {q \in T : Meta(q.meta).sequence}}

\* DELETE FROM sync WHERE id = ?, then UPDATE sync SET sequence = ? WHERE id = ?
Saved(T, ok) ==
  {IF r.id \in ok THEN [r EXCEPT !.sequence = r.sequence_number] ELSE r :
     r \in {q \in T : Meta(q.meta).sequence => q.id \in ok}}

\* SELECT a.id FROM sync a LEFT JOIN sync b ON a.undone = b.id WHERE a.undone > 0
\* AND b.id IS NULL
Updates(T) == {a.id : a \in {r \in T : r.undone > 0 /\ ~\E b \in T : b.id = r.undone}}

\* undone references that are left as they are
DanglingKept(T) == T

\* UPDATE sync SET undone = 0 for the rows whose undone names no row
DanglingReset(T) ==
  {IF r.id \in Updates(T) THEN [r EXCEPT !.undone = 0] ELSE r : r \in T}

\* the test database of a community as it is found on disk
LoadCommunity(T) ==
  /\ community_last.op = "init"
  /\ community_sync' = T
  /\ community_last' = [op |-> "load", database_version |-> 0, updates |-> {}]
  /\ UNCHANGED << nodeVars, stormVars, databaseVars, openVars, bootstrapVars, repairVars >>

\* check_community_database(community, database_version)
CheckCommunityDatabase(database_version) ==
  /\ community_last.op = "load"
  /\ community_sync' =
       IF database_version < LATEST_VERSION
       THEN DanglingReset(Saved(community_sync, SequenceUpdates(community_sync)))
       ELSE community_sync
  /\ community_last' =
       [op |-> "check", database_version |-> database_version,
        updates |-> IF database_version < LATEST_VERSION
                    THEN Updates(Saved(community_sync, SequenceUpdates(community_sync)))
                    ELSE {}]
  /\ UNCHANGED << nodeVars, stormVars, databaseVars, openVars, bootstrapVars, repairVars >>

---------------------------------------------------------------------------
(* Specification: a community with up to three rows of two members is checked *)

\* the global times of the rows 1, 2, 3, in every order
TimesOfRows ==
  {t \in [1..MaxSync -> 1..MaxSync] : \A i, j \in 1..MaxSync : t[i] = t[j] => i = j}

\* what a row holds: a message of the meta without sequence numbers, or of the
\* meta with sequence numbers: #1, #2, or a packet that does not convert
Contents ==
  {[meta |-> "full-sync-text", converts |-> TRUE, sequence_number |-> 0],
   [meta |-> "sequence-text", converts |-> TRUE, sequence_number |-> 1],
   [meta |-> "sequence-text", converts |-> TRUE, sequence_number |-> 2],
   [meta |-> "sequence-text", converts |-> FALSE, sequence_number |-> 0]}

\* a table: row 1 belongs to member 1 and rows 2, 3 to members m2, m3; rows 1
\* and 3 may be undone by another row, row 3 also by a row that is not there
CommunityTable(m2, m3, c, t, u1, u3) ==
  {CommunityRow(1, 1, c[1].meta, t[1], c[1].converts, c[1].sequence_number, u1),
   CommunityRow(2, m2, c[2].meta, t[2], c[2].converts, c[2].sequence_number, 0),
   CommunityRow(3, m3, c[3].meta, t[3], c[3].converts, c[3].sequence_number, u3)}

NextCommunity ==
  \/ /\ community_last.op = "init"
     /\ \E m2, m3 \in 1..2, c \in [1..MaxSync -> Contents], t \in TimesOfRows,
           u1 \in {0, 2, 3}, u3 \in {0, 1, 2, MaxSync + 1} :
          LoadCommunity(CommunityTable(m2, m3, c, t, u1, u3))
  \/ \E database_version \in {LATEST_VERSION - 1, LATEST_VERSION} :
       CheckCommunityDatabase(database_version)

SpecCommunity == Init /\ [][NextCommunity]_vars

---------------------------------------------------------------------------
(* C33 *)

\* row r is the message with sequence number n that the members of its group
\* agree on: the earliest #1, or the earliest #n after the agreed #n-1
RECURSIVE Agreed(_, _, _)
Agreed(G, r, n) ==
  /\ r.converts
  /\ r.sequence_number = n
  /\ IF n = 1
     THEN \A q \in G : q.converts /\ q.sequence_number = 1 => r.global_time <= q.global_time
     ELSE \E prev \in G :
            /\ Agreed(G, prev, n - 1)
            /\ prev.global_time < r.global_time
            /\ \A q \in G : (/\ q.converts
                             /\ q.sequence_number = n
                             /\ prev.global_time < q.global_time)
                            => r.global_time <= q.global_time

\* the rows of the meta with sequence numbers of one member
SequenceRows(T, member) == {r \in T : r.meta = "sequence-text" /\ r.member = member}

CheckedSequencesStep ==
  (community_last'.op = "check" /\ community_last'.database_version < 21) =>
    \A member \in 1..2 :
      LET before == SequenceRows(community_sync, member)
          after == SequenceRows(community_sync', member)
      IN /\ {r.id : r \in after}
              = {r.id : r \in {q \in before : Agreed(before, q, q.sequence_number)}}
         /\ {r.sequence_number : r \in after} = 1..Cardinality(after)
         /\ \A r \in after : r.converts /\ r.sequence = r.sequence_number
         /\ \A r, q \in after :
              r.sequence_number < q.sequence_number => r.global_time < q.global_time

---------------------------------------------------------------------------
(* C34 *)

\* the undone column of the row with this id in table T
UndoneOf(T, id) == (CHOOSE r \in T : r.id = id).undone

DanglingStep ==
  (community_last'.op = "check" /\ community_last'.database_version < 21) =>
    \A r \in community_sync' :
      /\ r.undone > 0 => \E b \in community_sync' : b.id = r.undone
      /\ r.undone = IF \E b \in community_sync' : b.id = UndoneOf(community_sync, r.id)
                    THEN UndoneOf(community_sync, r.id) ELSE 0

---------------------------------------------------------------------------
(* Specification: queries and one script are scheduled, an operation may raise *)

NextWorker ==
  \/ ScheduleQuery
  \/ ExecuteScript
  \/ \E commit \in BOOLEAN : Close(commit)
  \/ WorkerGet
  \/ \E id \in 1..MaxQueries + MaxStatements : WorkerRun(Query(id))
  \/ WorkerScript
  \/ \E id \in 1..MaxQueries + MaxStatements : WorkerRaise(Query(id))
  \/ Callback

SpecWorker == Init /\ [][NextWorker]_vars

---------------------------------------------------------------------------
(* C35 *)

\* the elements of sequence s
Elements(s) == {s[i] : i \in DOMAIN s}

\* C35: the deferred returned by StormDBManager.executescript fires with None
\* once all statements have been executed: it never fires while a statement of
\* the script has not yet been run by the worker.
ScriptFiresAfterStatements ==
  ScriptItem.id \in Elements(fired) =>
    \A k \in 1..MaxStatements : Statement(k).id \in Elements(executed)

---------------------------------------------------------------------------
(* C38 *)

\* an operation executed by the worker raises an error
RaiseStep == storm_last'.op = "raise"

\* C38: if an operation executed by the StormDBManager worker raises an error
\* (for example an SQL error inside execute), the worker keeps running: every
\* operation enqueued after the failing one is still executed and its deferred
\* fires.
WorkerSurvivesError == [][RaiseStep => ~closed'.worker]_vars

---------------------------------------------------------------------------
(* C36 *)

\* the worker takes the exiting commit that close(commit=True) put on the queue
ExitingCommitStep ==
  /\ storm_last'.op = "get"
  /\ storm_last'.item.kind = "commit"
  /\ storm_last'.item.exiting

\* the worker takes the None that close() put on the queue
BreakStep ==
  /\ storm_last'.op = "get"
  /\ storm_last'.item.kind = "close"

\* C36: after close(commit=True) the worker executes every operation that was
\* enqueued before the close call, then performs a real connection.commit(),
\* and only then stops and releases cursor and connection; this holds for every
\* value of pending_commits at the time close is called, so no executed
\* mutation is left uncommitted at shutdown.
CloseCommitsAll ==
  [][ /\ ExitingCommitStep =>
           /\ executed = scheduled
           /\ connection_commits' = connection_commits + 1
           /\ ~closed'.worker
      /\ BreakStep => (executed = scheduled /\ closed'.worker)
    ]_vars

---------------------------------------------------------------------------
(* C37 *)

\* no with-block is active and the worker has drained the queue
Drained ==
  /\ scopes = << >>
  /\ queue = << >>
  /\ running = {}
  /\ ~commit_frame.active

\* C37: under every interleaving of the reactor thread (which runs __enter__,
\* __exit__ and enqueues commits) with the worker thread (which runs _commit),
\* pending_commits is 0 whenever no no-commit scope is active and the queue has
\* been drained, so a commit requested outside any scope is always actually
\* performed and never deferred.
PendingZeroWhenDrained == Drained => pending_commits = 0

---------------------------------------------------------------------------
(* Specification: the StormDBManager with a worker and a reactor that do not
   stop while they have something to do *)

SpecCommit ==
  /\ Init
  /\ [][NextStorm]_vars
  /\ WF_vars(WorkerGet)
  /\ WF_vars(WorkerDefer)
  /\ WF_vars(\E id \in 1..MaxQueries : WorkerRun(Query(id)))
  /\ WF_vars(Callback)

---------------------------------------------------------------------------
(* C40 *)

\* the deferred that the k-th call of commit() returned
CommitDeferred(k) == ScriptItem.id + k

\* C40: the deferred returned by StormDBManager.commit() eventually fires once
\* the worker has processed the commit request, whether the commit was
\* performed or deferred by a no-commit scope.
CommitDeferredFires ==
  \A k \in 1..MaxCommitCalls :
    (commit_calls >= k) ~> (CommitDeferred(k) \in Elements(fired))

---------------------------------------------------------------------------
(* C39 *)

\* C39: when two configured bootstrap entries resolve to the same IP address
\* and port (for example a hostname and the IP literal it points to), only a
\* single Candidate is made for them: the list returned by Bootstrap.candidates
\* never contains two candidates with the same socket address.
SingleCandidatePerSockAddr ==
  \A a, b \in DOMAIN candidate_addresses(bootstrap_candidates) :
    a # b => candidate_addresses(bootstrap_candidates)[a]
               # candidate_addresses(bootstrap_candidates)[b]

====
